---------------------------- MODULE Spec2Model ----------------------------
(* Model of the Stackr tetris engine (src/src/tetris_core) : board,        *)
(* piece geometry, rotation system, 7-bag randomizer and game controller.  *)
EXTENDS Integers, Sequences, FiniteSets, TLC

VARIABLES game, last, locks

vars == <<game, last, locks>>

(* ---------------------------------------------------------------------- *)
(* Program constants                                                       *)
(* ---------------------------------------------------------------------- *)
BOARD_WIDTH == 10

BOARD_HEIGHT == 22

LOCK_DELAY == 500

MAX_LOCK_RESETS == 15

INITIAL_GRAVITY == 1000

PREVIEW_SIZE == 5

(* ---------------------------------------------------------------------- *)
(* Bounds of the model                                                     *)
(* ---------------------------------------------------------------------- *)
\* pivots tried by the can_place specification lie within this margin
\* around the board
PivotMargin == 1

\* number of bottom rows the clear_lines specification varies
ScanRows == 5

\* number of pieces a run of the drop-only driver locks
DropLocks == 1

\* the runs keep the pivot of the piece within this many columns of the
\* spawn column
Reach == 1

\* soft-drop points a run collects
MaxSoftDrops == 1

(* ---------------------------------------------------------------------- *)
(* piece.rs                                                                *)
(* ---------------------------------------------------------------------- *)
PieceType == {"I", "O", "T", "S", "Z", "J", "L"}

Rotation == {"North", "East", "South", "West"}

NoPiece == [none |-> TRUE]

\* rotate_cw that does not leave West
rotate_cw_StuckWest(r) ==
    CASE r = "North" -> "East"
      [] r = "East"  -> "South"
      [] r = "South" -> "West"
      [] r = "West"  -> "West"

rotate_cw(r) ==
    CASE r = "North" -> "East"
      [] r = "East"  -> "South"
      [] r = "South" -> "West"
      [] r = "West"  -> "North"

rotate_ccw(r) ==
    CASE r = "North" -> "West"
      [] r = "East"  -> "North"
      [] r = "South" -> "East"
      [] r = "West"  -> "South"

\* Piece::new : orientation North at the given pivot
NewPiece(t, row, col) ==
    [piece_type |-> t, row |-> row, col |-> col, rotation |-> "North"]

\* the static (shape, orientation) table of <<row offset, col offset>>
get_block_offsets(t, r) ==
    CASE t = "I" /\ r = "North" -> << <<0, -1>>, <<0, 0>>, <<0, 1>>, <<0, 2>> >>
      [] t = "I" /\ r = "East"  -> << <<-1, 1>>, <<0, 1>>, <<1, 1>>, <<2, 1>> >>
      [] t = "I" /\ r = "South" -> << <<1, -1>>, <<1, 0>>, <<1, 1>>, <<1, 2>> >>
      [] t = "I" /\ r = "West"  -> << <<-1, 0>>, <<0, 0>>, <<1, 0>>, <<2, 0>> >>
      [] t = "O"                -> << <<0, 0>>, <<0, 1>>, <<1, 0>>, <<1, 1>> >>
      [] t = "T" /\ r = "North" -> << <<0, 0>>, <<0, -1>>, <<0, 1>>, <<1, 0>> >>
      [] t = "T" /\ r = "East"  -> << <<0, 0>>, <<-1, 0>>, <<1, 0>>, <<0, 1>> >>
      [] t = "T" /\ r = "South" -> << <<0, 0>>, <<0, -1>>, <<0, 1>>, <<-1, 0>> >>
      [] t = "T" /\ r = "West"  -> << <<0, 0>>, <<-1, 0>>, <<1, 0>>, <<0, -1>> >>
      [] t = "S" /\ r = "North" -> << <<0, 0>>, <<0, -1>>, <<1, 0>>, <<1, 1>> >>
      [] t = "S" /\ r = "East"  -> << <<0, 0>>, <<1, 0>>, <<0, 1>>, <<-1, 1>> >>
      [] t = "S" /\ r = "South" -> << <<0, 0>>, <<0, 1>>, <<-1, 0>>, <<-1, -1>> >>
      [] t = "S" /\ r = "West"  -> << <<0, 0>>, <<-1, 0>>, <<0, -1>>, <<1, -1>> >>
      [] t = "Z" /\ r = "North" -> << <<0, 0>>, <<0, 1>>, <<1, 0>>, <<1, -1>> >>
      [] t = "Z" /\ r = "East"  -> << <<0, 0>>, <<-1, 0>>, <<0, -1>>, <<1, -1>> >>
      [] t = "Z" /\ r = "South" -> << <<0, 0>>, <<0, -1>>, <<-1, 0>>, <<-1, 1>> >>
      [] t = "Z" /\ r = "West"  -> << <<0, 0>>, <<1, 0>>, <<0, 1>>, <<-1, 1>> >>
      [] t = "J" /\ r = "North" -> << <<0, 0>>, <<0, -1>>, <<0, 1>>, <<-1, 1>> >>
      [] t = "J" /\ r = "East"  -> << <<0, 0>>, <<-1, 0>>, <<1, 0>>, <<-1, -1>> >>
      [] t = "J" /\ r = "South" -> << <<0, 0>>, <<0, 1>>, <<0, -1>>, <<1, -1>> >>
      [] t = "J" /\ r = "West"  -> << <<0, 0>>, <<1, 0>>, <<-1, 0>>, <<1, 1>> >>
      [] t = "L" /\ r = "North" -> << <<0, 0>>, <<0, -1>>, <<0, 1>>, <<1, 1>> >>
      [] t = "L" /\ r = "East"  -> << <<0, 0>>, <<-1, 0>>, <<1, 0>>, <<1, -1>> >>
      [] t = "L" /\ r = "South" -> << <<0, 0>>, <<0, 1>>, <<0, -1>>, <<-1, -1>> >>
      [] t = "L" /\ r = "West"  -> << <<0, 0>>, <<1, 0>>, <<-1, 0>>, <<-1, 1>> >>

\* the four cells of the piece as signed <<row, col>> pairs
SignedCells(p) ==
    LET offs == get_block_offsets(p.piece_type, p.rotation)
    IN  [i \in 1..4 |-> <<p.row + offs[i][1], p.col + offs[i][2]>>]

NonNegative(c) == c[1] >= 0 /\ c[2] >= 0

\* Piece::get_blocks : filter_map keeps only the cells whose row and
\* column are both non-negative (they are then cast to usize)
get_blocks(p) == SelectSeq(SignedCells(p), NonNegative)

with_left_move(p) == [p EXCEPT !.col = p.col - 1]

with_right_move(p) == [p EXCEPT !.col = p.col + 1]

with_down_move(p) == [p EXCEPT !.row = p.row + 1]

(* ---------------------------------------------------------------------- *)
(* board.rs                                                                *)
(* ---------------------------------------------------------------------- *)
Rows == 0..(BOARD_HEIGHT - 1)

Cols == 0..(BOARD_WIDTH - 1)

EmptyRow == [c \in Cols |-> "Empty"]

\* Board::new
EmptyBoard == [r \in Rows |-> EmptyRow]

\* Board::get_cell : "None" stands for Option::None
get_cell(b, row, col) ==
    IF row < BOARD_HEIGHT /\ col < BOARD_WIDTH THEN b[row][col] ELSE "None"

\* Board::can_place over the cells get_blocks returns
can_place(b, p) ==
    LET blocks == get_blocks(p)
    IN  \A i \in 1..Len(blocks) :
            /\ ~(blocks[i][1] >= BOARD_HEIGHT \/ blocks[i][2] >= BOARD_WIDTH)
            /\ get_cell(b, blocks[i][1], blocks[i][2]) = "Empty"

\* the loop of Board::place_piece from block i on
RECURSIVE PlaceLoop(_, _, _, _)
PlaceLoop(b, blocks, i, t) ==
    IF i > Len(blocks) THEN b
    ELSE PlaceLoop([b EXCEPT ![blocks[i][1]][blocks[i][2]] = t], blocks, i + 1, t)

\* Board::place_piece : writes the cells get_blocks returns
place_piece(b, p) ==
    IF ~can_place(b, p) THEN b
    ELSE PlaceLoop(b, get_blocks(p), 1, p.piece_type)

is_line_complete(b, row) ==
    IF row >= BOARD_HEIGHT THEN FALSE
    ELSE \A c \in Cols : b[row][c] # "Empty"

\* Board::remove_line : rows 1..row take the content of the row above,
\* row 0 becomes empty
remove_line(b, row) ==
    IF row >= BOARD_HEIGHT THEN b
    ELSE [r \in Rows |->
            IF r = 0 THEN EmptyRow
            ELSE IF r <= row THEN b[r - 1]
            ELSE b[r]]

\* the loop of Board::clear_lines from index `row` downto 0, one test per
\* index, the index decreasing after every iteration
RECURSIVE ClearLoop(_, _, _)
ClearLoop(b, row, n) ==
    IF row < 0 THEN [board |-> b, lines_cleared |-> n]
    ELSE IF is_line_complete(b, row)
         THEN ClearLoop(remove_line(b, row), row - 1, n + 1)
         ELSE ClearLoop(b, row - 1, n)

\* Board::clear_lines
clear_lines(b) == ClearLoop(b, BOARD_HEIGHT - 1, 0)

is_perfect_clear(b) == \A r \in Rows : \A c \in Cols : b[r][c] = "Empty"

(* ---------------------------------------------------------------------- *)
(* rotation.rs                                                             *)
(* ---------------------------------------------------------------------- *)
\* RotationSystem::get_kick_offsets : ordered <<row offset, col offset>>
get_kick_offsets(t, from, to) ==
    IF t = "I" THEN
        CASE from = "North" /\ to = "East"  -> << <<0, 0>>, <<-1, 0>>, <<2, 0>>, <<-1, -2>>, <<2, 1>> >>
          [] from = "East"  /\ to = "North" -> << <<0, 0>>, <<1, 0>>, <<-2, 0>>, <<1, 2>>, <<-2, -1>> >>
          [] from = "East"  /\ to = "South" -> << <<0, 0>>, <<2, 0>>, <<-1, 0>>, <<2, -1>>, <<-1, 2>> >>
          [] from = "South" /\ to = "East"  -> << <<0, 0>>, <<-2, 0>>, <<1, 0>>, <<-2, 1>>, <<1, -2>> >>
          [] from = "South" /\ to = "West"  -> << <<0, 0>>, <<1, 0>>, <<-2, 0>>, <<1, 2>>, <<-2, -1>> >>
          [] from = "West"  /\ to = "South" -> << <<0, 0>>, <<-1, 0>>, <<2, 0>>, <<-1, -2>>, <<2, 1>> >>
          [] from = "West"  /\ to = "North" -> << <<0, 0>>, <<-2, 0>>, <<1, 0>>, <<-2, 1>>, <<1, -2>> >>
          [] from = "North" /\ to = "West"  -> << <<0, 0>>, <<2, 0>>, <<-1, 0>>, <<2, -1>>, <<-1, 2>> >>
          [] OTHER -> << <<0, 0>> >>
    ELSE IF t = "O" THEN << <<0, 0>> >>
    ELSE
        CASE from = "North" /\ to = "East"  -> << <<0, 0>>, <<-1, 0>>, <<-1, 1>>, <<0, -2>>, <<-1, -2>> >>
          [] from = "East"  /\ to = "North" -> << <<0, 0>>, <<1, 0>>, <<1, -1>>, <<0, 2>>, <<1, 2>> >>
          [] from = "East"  /\ to = "South" -> << <<0, 0>>, <<1, 0>>, <<1, -1>>, <<0, 2>>, <<1, 2>> >>
          [] from = "South" /\ to = "East"  -> << <<0, 0>>, <<-1, 0>>, <<-1, 1>>, <<0, -2>>, <<-1, -2>> >>
          [] from = "South" /\ to = "West"  -> << <<0, 0>>, <<1, 0>>, <<1, 1>>, <<0, -2>>, <<1, -2>> >>
          [] from = "West"  /\ to = "South" -> << <<0, 0>>, <<-1, 0>>, <<-1, -1>>, <<0, 2>>, <<-1, 2>> >>
          [] from = "West"  /\ to = "North" -> << <<0, 0>>, <<-1, 0>>, <<-1, -1>>, <<0, 2>>, <<-1, 2>> >>
          [] from = "North" /\ to = "West"  -> << <<0, 0>>, <<1, 0>>, <<1, 1>>, <<0, -2>>, <<1, -2>> >>
          [] OTHER -> << <<0, 0>> >>

\* the kick loop returning the LAST placeable kick of the list
TryKicks_LastPlaceable(p, to, b) ==
    LET kicks == get_kick_offsets(p.piece_type, p.rotation, to)
        Kicked(i) == [p EXCEPT !.rotation = to,
                               !.row = p.row + kicks[i][1],
                               !.col = p.col + kicks[i][2]]
        ok == {i \in 1..Len(kicks) : can_place(b, Kicked(i))}
    IN  IF ok = {} THEN NoPiece
        ELSE Kicked(CHOOSE i \in ok : \A j \in ok : i >= j)

\* the reoriented piece displaced by the first placeable kick, or NoPiece
TryKicks(p, to, b) ==
    LET kicks == get_kick_offsets(p.piece_type, p.rotation, to)
        Kicked(i) == [p EXCEPT !.rotation = to,
                               !.row = p.row + kicks[i][1],
                               !.col = p.col + kicks[i][2]]
        ok == {i \in 1..Len(kicks) : can_place(b, Kicked(i))}
    IN  IF ok = {} THEN NoPiece
        ELSE Kicked(CHOOSE i \in ok : \A j \in ok : i <= j)

\* RotationSystem::rotate_clockwise
RotateCw(p, b) == TryKicks(p, rotate_cw(p.rotation), b)

\* RotationSystem::rotate_counterclockwise
RotateCcw(p, b) == TryKicks(p, rotate_ccw(p.rotation), b)

(* ---------------------------------------------------------------------- *)
(* randomizer.rs                                                           *)
(* ---------------------------------------------------------------------- *)
\* Vec::pop takes the LAST element of the bag
BagPop(bag) == [item |-> bag[Len(bag)], bag |-> SubSeq(bag, 1, Len(bag) - 1)]

RECURSIVE FillPreview(_, _, _)
FillPreview(rz, n, perm) ==
    IF n = 0 THEN rz
    ELSE LET bag == IF rz.bag = << >> THEN perm ELSE rz.bag
             pop == BagPop(bag)
         IN  FillPreview([bag |-> pop.bag,
                          preview_queue |-> Append(rz.preview_queue, pop.item)],
                         n - 1, perm)

\* BagRandomizer::new that restocks the bag after filling the queue
NewRandomizer_Restocked(perm) ==
    [FillPreview([bag |-> perm, preview_queue |-> << >>], PREVIEW_SIZE, perm)
        EXCEPT !.bag = perm]

\* BagRandomizer::new ; perm is the outcome of the shuffle
NewRandomizer(perm) ==
    FillPreview([bag |-> perm, preview_queue |-> << >>], PREVIEW_SIZE, perm)

\* BagRandomizer::next that refills the bag one shape early
RandNext_EarlyRefill(rz, perm) ==
    LET bag == IF Len(rz.bag) <= 1 THEN perm ELSE rz.bag
        pop == BagPop(bag)
    IN  [item |-> Head(rz.preview_queue),
         rz   |-> [bag |-> pop.bag,
                   preview_queue |-> Append(Tail(rz.preview_queue), pop.item)]]

\* BagRandomizer::next ; perm is the outcome of the shuffle, used when the
\* bag is empty
RandNext(rz, perm) ==
    LET bag == IF rz.bag = << >> THEN perm ELSE rz.bag
        pop == BagPop(bag)
    IN  [item |-> Head(rz.preview_queue),
         rz   |-> [bag |-> pop.bag,
                   preview_queue |-> Append(Tail(rz.preview_queue), pop.item)]]

\* usize::min
Min(a, b) == IF a <= b THEN a ELSE b

\* peek that returns the newest shapes of the queue
RandPeek_Newest(rz, count) ==
    SubSeq(rz.preview_queue,
           Len(rz.preview_queue) - Min(count, Len(rz.preview_queue)) + 1,
           Len(rz.preview_queue))

\* BagRandomizer::peek : the first min(count, len) shapes of the queue
RandPeek(rz, count) == SubSeq(rz.preview_queue, 1, Min(count, Len(rz.preview_queue)))

(* ---------------------------------------------------------------------- *)
(* game.rs : ScoreSystem                                                   *)
(* ---------------------------------------------------------------------- *)
NewScoreSystem == [score |-> 0, level |-> 1, lines_cleared |-> 0]

LineMultiplier(lines, tspin) ==
    CASE lines = 1 /\ tspin = "Full" -> 800
      [] lines = 2 /\ tspin = "Full" -> 1200
      [] lines = 3 /\ tspin = "Full" -> 1600
      [] lines = 1 /\ tspin = "Mini" -> 200
      [] lines = 2 /\ tspin = "Mini" -> 400
      [] lines = 1 /\ tspin = "None" -> 100
      [] lines = 2 /\ tspin = "None" -> 300
      [] lines = 3 /\ tspin = "None" -> 500
      [] lines = 4 /\ tspin = "None" -> 800
      [] OTHER -> 0

\* add_score_for_lines_with_tspin that derives the level before it counts
\* the lines
add_score_for_lines_with_tspin_StaleLevel(ss, lines, tspin) ==
    IF lines = 0
    THEN CASE tspin = "Full" -> [ss EXCEPT !.score = ss.score + 400 * ss.level]
           [] tspin = "Mini" -> [ss EXCEPT !.score = ss.score + 100 * ss.level]
           [] OTHER -> ss
    ELSE [score |-> ss.score + LineMultiplier(lines, tspin) * ss.level,
          lines_cleared |-> ss.lines_cleared + lines,
          level |-> (ss.lines_cleared \div 10) + 1]

\* ScoreSystem::add_score_for_lines_with_tspin
add_score_for_lines_with_tspin(ss, lines, tspin) ==
    IF lines = 0
    THEN CASE tspin = "Full" -> [ss EXCEPT !.score = ss.score + 400 * ss.level]
           [] tspin = "Mini" -> [ss EXCEPT !.score = ss.score + 100 * ss.level]
           [] OTHER -> ss
    ELSE [score |-> ss.score + LineMultiplier(lines, tspin) * ss.level,
          lines_cleared |-> ss.lines_cleared + lines,
          level |-> ((ss.lines_cleared + lines) \div 10) + 1]

PerfectClearBonus(lines) ==
    CASE lines = 1 -> 800
      [] lines = 2 -> 1200
      [] lines = 3 -> 1800
      [] lines = 4 -> 2000
      [] OTHER -> 0

add_perfect_clear_bonus(ss, lines) ==
    [ss EXCEPT !.score = ss.score + PerfectClearBonus(lines) * ss.level]

add_soft_drop_score(ss, rows) == [ss EXCEPT !.score = ss.score + rows]

add_hard_drop_score(ss, rows) == [ss EXCEPT !.score = ss.score + rows * 2]

(* ---------------------------------------------------------------------- *)
(* game.rs : Game                                                          *)
(* ---------------------------------------------------------------------- *)
\* stand-in for 2^64, the modulus of usize arithmetic (release build);
\* only comparisons with BOARD_HEIGHT and BOARD_WIDTH are made on it
USIZE_MOD == 1073741824

\* `x as usize` of an i32
AsUsize(x) == IF x < 0 THEN USIZE_MOD + x ELSE x

\* usize subtraction and addition of 1, wrapping
USub1(u) == IF u = 0 THEN USIZE_MOD - 1 ELSE u - 1

UAdd1(u) == IF u = USIZE_MOD - 1 THEN 0 ELSE u + 1

calculate_gravity_delay(level) ==
    LET frames ==
          CASE level = 1 -> 60
            [] level = 2 -> 48
            [] level = 3 -> 36
            [] level = 4 -> 28
            [] level = 5 -> 22
            [] level = 6 -> 16
            [] level = 7 -> 12
            [] level = 8 -> 8
            [] level = 9 -> 6
            [] level \in 10..12 -> 4
            [] level \in 13..15 -> 3
            [] level \in 16..18 -> 2
            [] OTHER -> 1
    IN  (frames * 1000) \div 60

\* Game::is_cell_filled on usize coordinates
is_cell_filled(g, row, col) ==
    IF row >= BOARD_HEIGHT \/ col >= BOARD_WIDTH THEN TRUE
    ELSE g.board[row][col] # "Empty"

\* Game::detect_tspin : reads self.current_piece
detect_tspin(g) ==
    IF g.current_piece = NoPiece THEN "None"
    ELSE IF g.current_piece.piece_type # "T" THEN "None"
    ELSE
      LET piece == g.current_piece
          row == AsUsize(piece.row)
          col == AsUsize(piece.col)
          corners == << <<USub1(row), USub1(col)>>, <<USub1(row), UAdd1(col)>>,
                        <<UAdd1(row), USub1(col)>>, <<UAdd1(row), UAdd1(col)>> >>
          Filled(rc) ==
              IF rc[1] < BOARD_HEIGHT /\ rc[2] < BOARD_WIDTH
              THEN g.board[rc[1]][rc[2]] # "Empty"
              ELSE TRUE
          filled_corners == Cardinality({i \in 1..4 : Filled(corners[i])})
          front ==
              CASE piece.rotation = "North" -> {corners[3], corners[4]}
                [] piece.rotation = "East"  -> {corners[1], corners[3]}
                [] piece.rotation = "South" -> {corners[1], corners[2]}
                [] piece.rotation = "West"  -> {corners[2], corners[4]}
      IN  IF filled_corners >= 3
          THEN IF \E rc \in front : is_cell_filled(g, rc[1], rc[2])
               THEN "Full" ELSE "Mini"
          ELSE "None"

\* column and row at which pieces appear
SpawnCol == (BOARD_WIDTH \div 2) - 1

SpawnRow(t) == IF t = "I" THEN -1 ELSE 0

\* spawn_new_piece that ends the game but keeps the colliding piece active
spawn_new_piece_KeepsPiece(g, perm) ==
    LET nx == RandNext(g.randomizer, perm)
        new_piece == NewPiece(nx.item, SpawnRow(nx.item), SpawnCol)
        g1 == [g EXCEPT !.randomizer = nx.rz]
    IN  IF ~can_place(g1.board, new_piece)
        THEN [g1 EXCEPT !.state = "GameOver", !.current_piece = new_piece]
        ELSE [g1 EXCEPT !.current_piece = new_piece]

\* Game::spawn_new_piece ; perm is the shuffle outcome a refill would use
spawn_new_piece(g, perm) ==
    LET nx == RandNext(g.randomizer, perm)
        new_piece == NewPiece(nx.item, SpawnRow(nx.item), SpawnCol)
        g1 == [g EXCEPT !.randomizer = nx.rz]
    IN  IF ~can_place(g1.board, new_piece)
        THEN [g1 EXCEPT !.state = "GameOver", !.current_piece = NoPiece]
        ELSE [g1 EXCEPT !.current_piece = new_piece]

\* Game::lock_piece : the piece is taken out of current_piece before
\* detect_tspin is called
lock_piece(g, perm) ==
    IF g.current_piece = NoPiece THEN g
    ELSE
      LET piece == g.current_piece
          g0 == [g EXCEPT !.current_piece = NoPiece]
          tspin_type == detect_tspin(g0)
          placed == place_piece(g0.board, piece)
          cl == clear_lines(placed)
          lines_cleared == cl.lines_cleared
          is_pc == lines_cleared > 0 /\ is_perfect_clear(cl.board)
          ss1 == add_score_for_lines_with_tspin(g0.score_system, lines_cleared, tspin_type)
          ss2 == IF is_pc THEN add_perfect_clear_bonus(ss1, lines_cleared) ELSE ss1
          g1 == [g0 EXCEPT !.board = cl.board,
                           !.score_system = ss2,
                           !.gravity_delay = calculate_gravity_delay(ss2.level),
                           !.can_hold = TRUE,
                           !.lock_delay_active = FALSE,
                           !.lock_delay_timer = 0]
      IN  spawn_new_piece(g1, perm)

\* Game::new ; perm is the outcome of the first shuffle
NewGame(perm) ==
    spawn_new_piece(
        [board |-> EmptyBoard,
         current_piece |-> NoPiece,
         held_piece |-> "None",
         can_hold |-> TRUE,
         state |-> "Playing",
         score_system |-> NewScoreSystem,
         randomizer |-> NewRandomizer(perm),
         time_since_last_drop |-> 0,
         gravity_delay |-> INITIAL_GRAVITY,
         lock_delay_timer |-> 0,
         lock_delay_active |-> FALSE,
         lock_delay_resets |-> 0], perm)

\* try_reset_lock_delay with the cap test off by one (<= for <)
try_reset_lock_delay_OffByOne(g) ==
    IF g.lock_delay_active /\ g.lock_delay_resets <= MAX_LOCK_RESETS
    THEN [g EXCEPT !.lock_delay_timer = 0,
                   !.lock_delay_resets = g.lock_delay_resets + 1]
    ELSE g

\* Game::try_reset_lock_delay
try_reset_lock_delay(g) ==
    IF g.lock_delay_active /\ g.lock_delay_resets < MAX_LOCK_RESETS
    THEN [g EXCEPT !.lock_delay_timer = 0,
                   !.lock_delay_resets = g.lock_delay_resets + 1]
    ELSE g

\* the gravity part of Game::update (after the state test)
update_gravity(g, dt) ==
    LET t == g.time_since_last_drop + dt
    IN  IF t >= g.gravity_delay
        THEN LET g1 == [g EXCEPT !.time_since_last_drop = 0]
             IN  IF g1.current_piece = NoPiece THEN g1
                 ELSE IF can_place(g1.board, with_down_move(g1.current_piece))
                 THEN [g1 EXCEPT !.current_piece = with_down_move(g1.current_piece),
                                 !.lock_delay_active = FALSE,
                                 !.lock_delay_timer = 0]
                 ELSE IF ~g1.lock_delay_active
                 THEN [g1 EXCEPT !.lock_delay_active = TRUE,
                                 !.lock_delay_timer = 0,
                                 !.lock_delay_resets = 0]
                 ELSE g1
        ELSE [g EXCEPT !.time_since_last_drop = t]

\* update_lock_delay with the expiry test strict (> for >=)
update_lock_delay_Strict(g, dt, perm) ==
    IF g.lock_delay_active
    THEN LET g1 == [g EXCEPT !.lock_delay_timer = g.lock_delay_timer + dt]
         IN  IF g1.lock_delay_timer > LOCK_DELAY
             THEN [g |-> [lock_piece(g1, perm) EXCEPT !.lock_delay_active = FALSE,
                                                      !.lock_delay_timer = 0],
                   locked |-> g1.current_piece]
             ELSE [g |-> g1, locked |-> NoPiece]
    ELSE [g |-> g, locked |-> NoPiece]

\* the lock-delay part of Game::update ; `locked` is the piece it handed
\* to lock_piece, NoPiece when it handed none
update_lock_delay(g, dt, perm) ==
    IF g.lock_delay_active
    THEN LET g1 == [g EXCEPT !.lock_delay_timer = g.lock_delay_timer + dt]
         IN  IF g1.lock_delay_timer >= LOCK_DELAY
             THEN [g |-> [lock_piece(g1, perm) EXCEPT !.lock_delay_active = FALSE,
                                                      !.lock_delay_timer = 0],
                   locked |-> g1.current_piece]
             ELSE [g |-> g1, locked |-> NoPiece]
    ELSE [g |-> g, locked |-> NoPiece]

\* update that returns early only when the game is over
update_WhilePaused(g, dt, perm) ==
    IF g.state = "GameOver" THEN [g |-> g, ret |-> FALSE, locked |-> NoPiece]
    ELSE LET res == update_lock_delay(update_gravity(g, dt), dt, perm)
         IN  [g |-> res.g, ret |-> TRUE, locked |-> res.locked]

\* Game::update
update(g, dt, perm) ==
    IF g.state # "Playing" THEN [g |-> g, ret |-> FALSE, locked |-> NoPiece]
    ELSE LET res == update_lock_delay(update_gravity(g, dt), dt, perm)
         IN  [g |-> res.g, ret |-> TRUE, locked |-> res.locked]

\* the common body of move_left and move_right with a rejected move
\* counted as a lock-delay reset
MoveTo_CountsRejected(g, moved_piece) ==
    IF g.current_piece # NoPiece /\ can_place(g.board, moved_piece)
    THEN [g |-> try_reset_lock_delay([g EXCEPT !.current_piece = moved_piece]),
          ret |-> TRUE]
    ELSE [g |-> try_reset_lock_delay(g), ret |-> FALSE]

\* the common body of move_left and move_right
MoveTo(g, moved_piece) ==
    IF g.current_piece # NoPiece /\ can_place(g.board, moved_piece)
    THEN [g |-> try_reset_lock_delay([g EXCEPT !.current_piece = moved_piece]),
          ret |-> TRUE]
    ELSE [g |-> g, ret |-> FALSE]

move_left(g) ==
    IF g.current_piece = NoPiece THEN [g |-> g, ret |-> FALSE]
    ELSE MoveTo(g, with_left_move(g.current_piece))

move_right(g) ==
    IF g.current_piece = NoPiece THEN [g |-> g, ret |-> FALSE]
    ELSE MoveTo(g, with_right_move(g.current_piece))

\* move_down that restarts the lock delay at every blocked call
move_down_Restarts(g) ==
    IF g.current_piece = NoPiece THEN [g |-> g, ret |-> FALSE]
    ELSE IF can_place(g.board, with_down_move(g.current_piece))
    THEN [g |-> [g EXCEPT !.score_system = add_soft_drop_score(g.score_system, 1),
                          !.current_piece = with_down_move(g.current_piece)],
          ret |-> TRUE]
    ELSE [g |-> [g EXCEPT !.lock_delay_active = TRUE,
                          !.lock_delay_timer = 0,
                          !.lock_delay_resets = 0],
          ret |-> FALSE]

\* Game::move_down
move_down(g) ==
    IF g.current_piece = NoPiece THEN [g |-> g, ret |-> FALSE]
    ELSE IF can_place(g.board, with_down_move(g.current_piece))
    THEN [g |-> [g EXCEPT !.score_system = add_soft_drop_score(g.score_system, 1),
                          !.current_piece = with_down_move(g.current_piece)],
          ret |-> TRUE]
    ELSE IF ~g.lock_delay_active
    THEN [g |-> [g EXCEPT !.lock_delay_active = TRUE,
                          !.lock_delay_timer = 0,
                          !.lock_delay_resets = 0],
          ret |-> FALSE]
    ELSE [g |-> g, ret |-> FALSE]

\* the common body of rotate_clockwise and rotate_counterclockwise
RotateTo(g, rotated_piece) ==
    IF rotated_piece # NoPiece
    THEN [g |-> try_reset_lock_delay([g EXCEPT !.current_piece = rotated_piece]),
          ret |-> TRUE]
    ELSE [g |-> g, ret |-> FALSE]

rotate_clockwise(g) ==
    IF g.current_piece = NoPiece THEN [g |-> g, ret |-> FALSE]
    ELSE RotateTo(g, RotateCw(g.current_piece, g.board))

rotate_counterclockwise(g) ==
    IF g.current_piece = NoPiece THEN [g |-> g, ret |-> FALSE]
    ELSE RotateTo(g, RotateCcw(g.current_piece, g.board))

\* the descent loop of Game::hard_drop : the piece and the distance fallen.
\* A piece that is still placeable below the last row has no cell that
\* get_blocks returns, so every lower position is placeable too and the
\* loop does not end (hangs); it is cut there.
RECURSIVE DropLoop(_, _, _)
DropLoop(b, piece, drop_distance) ==
    IF ~can_place(b, with_down_move(piece))
    THEN [piece |-> piece, drop_distance |-> drop_distance, hangs |-> FALSE]
    ELSE IF piece.row > BOARD_HEIGHT
    THEN [piece |-> piece, drop_distance |-> drop_distance, hangs |-> TRUE]
    ELSE DropLoop(b, with_down_move(piece), drop_distance + 1)

\* the game as Game::hard_drop hands it to lock_piece
HardDropLanded(g) ==
    LET d == DropLoop(g.board, g.current_piece, 0)
    IN  [g EXCEPT !.score_system = add_hard_drop_score(g.score_system, d.drop_distance),
                  !.current_piece = d.piece]

\* whether the descent loop of hard_drop fails to end
HardDropHangs(g) ==
    g.current_piece # NoPiece /\ DropLoop(g.board, g.current_piece, 0).hangs

\* Game::hard_drop ; `locked` is the piece it handed to lock_piece
hard_drop(g, perm) ==
    IF g.current_piece = NoPiece THEN [g |-> g, ret |-> FALSE, locked |-> NoPiece]
    ELSE LET landed == HardDropLanded(g)
         IN  [g |-> lock_piece(landed, perm), ret |-> TRUE,
              locked |-> landed.current_piece]

\* hold_piece that leaves can_hold set
hold_piece_Repeatable(g, perm) ==
    IF ~g.can_hold THEN [g |-> g, ret |-> FALSE]
    ELSE IF g.current_piece = NoPiece THEN [g |-> g, ret |-> FALSE]
    ELSE
      LET current_type == g.current_piece.piece_type
          g0 == [g EXCEPT !.current_piece = NoPiece]
          g1 == IF g0.held_piece # "None"
                THEN [g0 EXCEPT !.current_piece =
                         NewPiece(g0.held_piece, SpawnRow(g0.held_piece), SpawnCol)]
                ELSE spawn_new_piece(g0, perm)
      IN  [g |-> [g1 EXCEPT !.held_piece = current_type], ret |-> TRUE]

\* hold_piece that draws a new piece also when a shape is held
hold_piece_AlwaysDraws(g, perm) ==
    IF ~g.can_hold THEN [g |-> g, ret |-> FALSE]
    ELSE IF g.current_piece = NoPiece THEN [g |-> g, ret |-> FALSE]
    ELSE
      LET current_type == g.current_piece.piece_type
          g0 == [g EXCEPT !.current_piece = NoPiece]
          g1 == spawn_new_piece(g0, perm)
      IN  [g |-> [g1 EXCEPT !.held_piece = current_type, !.can_hold = FALSE],
           ret |-> TRUE]

\* Game::hold_piece
hold_piece(g, perm) ==
    IF ~g.can_hold THEN [g |-> g, ret |-> FALSE]
    ELSE IF g.current_piece = NoPiece THEN [g |-> g, ret |-> FALSE]
    ELSE
      LET current_type == g.current_piece.piece_type
          g0 == [g EXCEPT !.current_piece = NoPiece]
          g1 == IF g0.held_piece # "None"
                THEN [g0 EXCEPT !.current_piece =
                         NewPiece(g0.held_piece, SpawnRow(g0.held_piece), SpawnCol)]
                ELSE spawn_new_piece(g0, perm)
      IN  [g |-> [g1 EXCEPT !.held_piece = current_type, !.can_hold = FALSE],
           ret |-> TRUE]

\* reset that leaves the state as it is
reset_KeepsState(g, perm) ==
    spawn_new_piece(
        [g EXCEPT !.board = EmptyBoard,
                  !.current_piece = NoPiece,
                  !.held_piece = "None",
                  !.can_hold = TRUE,
                  !.score_system = NewScoreSystem,
                  !.randomizer = NewRandomizer(perm),
                  !.time_since_last_drop = 0,
                  !.gravity_delay = INITIAL_GRAVITY,
                  !.lock_delay_active = FALSE,
                  !.lock_delay_timer = 0,
                  !.lock_delay_resets = 0], perm)

\* Game::reset ; perm is the outcome of the shuffle of the new piece source
reset(g, perm) ==
    spawn_new_piece(
        [g EXCEPT !.board = EmptyBoard,
                  !.current_piece = NoPiece,
                  !.held_piece = "None",
                  !.can_hold = TRUE,
                  !.state = "Playing",
                  !.score_system = NewScoreSystem,
                  !.randomizer = NewRandomizer(perm),
                  !.time_since_last_drop = 0,
                  !.gravity_delay = INITIAL_GRAVITY,
                  !.lock_delay_active = FALSE,
                  !.lock_delay_timer = 0,
                  !.lock_delay_resets = 0], perm)

\* toggle_pause that also leaves GameOver
toggle_pause_Resumes(g) ==
    [g EXCEPT !.state = IF g.state = "Playing" THEN "Paused" ELSE "Playing"]

\* Game::toggle_pause
toggle_pause(g) ==
    [g EXCEPT !.state = CASE g.state = "Playing"  -> "Paused"
                          [] g.state = "Paused"   -> "Playing"
                          [] g.state = "GameOver" -> "GameOver"]

\* Game::peek_next_pieces
peek_next_pieces(g, count) == RandPeek(g.randomizer, count)

(* ---------------------------------------------------------------------- *)
(* Reference notions used by the properties                                *)
(* ---------------------------------------------------------------------- *)
CompleteRows(b) == {r \in Rows : \A c \in Cols : b[r][c] # "Empty"}

FilledCount(b) == Cardinality({rc \in Rows \X Cols : b[rc[1]][rc[2]] # "Empty"})

\* every one of the four cells is on the board and on an empty cell
AllCellsLegal(b, p) ==
    \A i \in 1..4 :
        LET c == SignedCells(p)[i]
        IN  /\ c[1] \in Rows
            /\ c[2] \in Cols
            /\ b[c[1]][c[2]] = "Empty"

\* the incomplete rows of b, in order, packed to the bottom
RECURSIVE KeptRows(_, _)
KeptRows(b, r) ==
    IF r < 0 THEN << >>
    ELSE IF r \in CompleteRows(b) THEN KeptRows(b, r - 1)
         ELSE Append(KeptRows(b, r - 1), b[r])

Compacted(b) ==
    LET kept == KeptRows(b, BOARD_HEIGHT - 1)
        gap  == BOARD_HEIGHT - Len(kept)
    IN  [r \in Rows |-> IF r < gap THEN EmptyRow ELSE kept[r - gap + 1]]


\* the spin class of a T piece at p on board b by the corner rule : the
\* diagonal neighbours of the pivot are tested with signed coordinates, a
\* neighbour off the board counting as filled
RefFilled(b, r, c) == r \notin Rows \/ c \notin Cols \/ b[r][c] # "Empty"

RefFront(p) ==
    CASE p.rotation = "North" -> {<<p.row + 1, p.col - 1>>, <<p.row + 1, p.col + 1>>}
      [] p.rotation = "East"  -> {<<p.row - 1, p.col - 1>>, <<p.row + 1, p.col - 1>>}
      [] p.rotation = "South" -> {<<p.row - 1, p.col - 1>>, <<p.row - 1, p.col + 1>>}
      [] p.rotation = "West"  -> {<<p.row - 1, p.col + 1>>, <<p.row + 1, p.col + 1>>}

RefSpin(b, p) ==
    LET corners == {<<p.row + dr, p.col + dc>> : dr \in {-1, 1}, dc \in {-1, 1}}
        filled == {rc \in corners : RefFilled(b, rc[1], rc[2])}
    IN  IF p.piece_type # "T" \/ Cardinality(filled) < 3 THEN "None"
        ELSE IF \E rc \in RefFront(p) : RefFilled(b, rc[1], rc[2]) THEN "Full"
        ELSE "Mini"

\* the scoring table : points per level for a lock of the given spin class
\* that removes k rows
RefLineScore(spin, k) ==
    CASE spin = "None" -> <<0, 100, 300, 500, 800>>[k + 1]
      [] spin = "Full" -> <<400, 800, 1200, 1600, 0>>[k + 1]
      [] spin = "Mini" -> <<100, 200, 400, 0, 0>>[k + 1]

\* the perfect-clear bonus per level for k removed rows
RefPerfectClear(k) == <<0, 800, 1200, 1800, 2000>>[k + 1]

(* ---------------------------------------------------------------------- *)
(* Inputs                                                                  *)
(* ---------------------------------------------------------------------- *)
RECURSIVE Reverse(_)
Reverse(sq) == IF sq = << >> THEN << >> ELSE Append(Reverse(Tail(sq)), Head(sq))

\* the order in which the runs of the full controller draw their first bag
TimeOrder == <<"T", "O", "L", "J", "S", "Z", "I">>

\* the order in which the runs of the drop-only driver draw their first bag
DropOrder == <<"T", "I", "O", "L", "J", "S", "Z">>

\* the bags a shuffle leaves in the runs (a bag is popped from its end)
ShuffleOutcomes == {Reverse(TimeOrder), Reverse(DropOrder)}

\* elapsed times handed to update, in ms
DtValues == {250, 500}

\* boards installed into a fresh game the way main.rs
\* setup_perfect_clear_scenario installs one (game.board = temp_board)
FilledExcept(Hole(_, _)) ==
    [r \in Rows |-> [c \in Cols |-> IF Hole(r, c) THEN "Empty" ELSE "O"]]

\* the board of main.rs : the two bottom rows filled except cells 3..6 of
\* the last row
DemoBoard ==
    LET Hole(r, c) == r < BOARD_HEIGHT - 2 \/ (r = BOARD_HEIGHT - 1 /\ c \in 3..6)
    IN  FilledExcept(Hole)

\* the two bottom rows filled except the four cells a T piece with its
\* stem down fills : cells 3..5 of row 20 and cell 4 of row 21
TeeBoard ==
    LET Hole(r, c) == \/ r < BOARD_HEIGHT - 2
                      \/ (r = BOARD_HEIGHT - 2 /\ c \in 3..5)
                      \/ (r = BOARD_HEIGHT - 1 /\ c = 4)
    IN  FilledExcept(Hole)

\* the same under one more cell, at the left end of row 19
StackBoard == [TeeBoard EXCEPT ![BOARD_HEIGHT - 3][0] = "O"]

\* a stack that reaches the top : row 0 open over columns 3..5, row 1 over
\* columns 2..5, a slot at column 5 of row 2 between filled cells, and an
\* enclosed hole in column 9 of every row from row 2 on
SlotBoard ==
    LET Hole(r, c) == \/ (r = 0 /\ c \in 3..5)
                      \/ (r = 1 /\ c \in 2..5)
                      \/ (r = 2 /\ c = 5)
                      \/ (r >= 2 /\ c = 9)
    IN  FilledExcept(Hole)

DropBoards == {TeeBoard, StackBoard, SlotBoard}

\* a stack that reaches the top : a cavity over columns 3..6 of the two
\* top rows with a slot under it at column 4, and an enclosed hole in
\* column 9 of every other row
CavityBoard ==
    LET Hole(r, c) == (r < 2 /\ c \in 3..6) \/ (r = 2 /\ c = 4) \/ (r >= 2 /\ c = 9)
    IN  FilledExcept(Hole)

TimeBoards == {CavityBoard}

\* a stack that reaches the top and leaves a pit over columns 3..5 of the
\* two top rows, with column 9 empty in every row
PitBoard ==
    LET Hole(r, c) == (r < 2 /\ c \in 3..5) \/ c = 9
    IN  FilledExcept(Hole)

PauseBoards == {PitBoard}

(* ---------------------------------------------------------------------- *)
(* Record of the last call                                                 *)
(* ---------------------------------------------------------------------- *)
\* op : the call made last, ret : what it returned, dt : the time handed
\* to update, locked : the piece the call handed to lock_piece
Call(op, ret, dt, locked) == [op |-> op, ret |-> ret, dt |-> dt, locked |-> locked]

(* ---------------------------------------------------------------------- *)
(* Actions of the game controller                                          *)
(* ---------------------------------------------------------------------- *)
\* a board has been installed
Loaded == last.op # "new"

\* the runs keep the pivot of the piece within Reach columns of the spawn
\* column and at or under the row its shape spawns at
InBox(p) ==
    IF p = NoPiece THEN TRUE
    ELSE /\ p.col >= SpawnCol - Reach
         /\ p.col <= SpawnCol + Reach
         /\ p.row >= SpawnRow(p.piece_type)

\* the shuffle outcomes a call can meet : one only unless the bag is empty
Refills(g) ==
    IF g.randomizer.bag = << >> THEN ShuffleOutcomes
    ELSE {CHOOSE perm \in ShuffleOutcomes : TRUE}

Init ==
    /\ game = NewGame(Reverse(TimeOrder))
    /\ last = Call("new", TRUE, 0, NoPiece)
    /\ locks = 0

InitDrop ==
    /\ game = NewGame(Reverse(DropOrder))
    /\ last = Call("new", TRUE, 0, NoPiece)
    /\ locks = 0

LoadDropBoard ==
    /\ last.op = "new"
    /\ \E b \in DropBoards : game' = [game EXCEPT !.board = b]
    /\ last' = Call("load", TRUE, 0, NoPiece)
    /\ UNCHANGED locks

LoadTimeBoard ==
    /\ last.op = "new"
    /\ \E b \in TimeBoards : game' = [game EXCEPT !.board = b]
    /\ last' = Call("load", TRUE, 0, NoPiece)
    /\ UNCHANGED locks

Plain(op, result) ==
    /\ Loaded
    /\ \E res \in {result} :
          /\ InBox(res.g.current_piece)
          /\ game' = res.g
          /\ last' = Call(op, res.ret, 0, NoPiece)
    /\ UNCHANGED locks

MoveLeft == Plain("move_left", move_left(game))

MoveRight == Plain("move_right", move_right(game))

\* a run collects at most MaxSoftDrops soft-drop points
MoveDown ==
    /\ game.score_system.score < MaxSoftDrops
    /\ Plain("move_down", move_down(game))

RotateClockwise == Plain("rotate_clockwise", rotate_clockwise(game))

RotateCounterclockwise ==
    Plain("rotate_counterclockwise", rotate_counterclockwise(game))

HoldPiece ==
    \E perm \in Refills(game) : Plain("hold_piece", hold_piece(game, perm))

HardDrop ==
    /\ Loaded
    /\ ~HardDropHangs(game)
    /\ \E perm \in Refills(game) : \E res \in {hard_drop(game, perm)} :
          /\ game' = res.g
          /\ last' = Call("hard_drop", res.ret, 0, res.locked)
          /\ locks' = IF res.locked # NoPiece THEN locks + 1 ELSE locks

Update ==
    /\ Loaded
    /\ \E dt \in DtValues : \E perm \in Refills(game) :
          \E res \in {update(game, dt, perm)} :
              /\ game' = res.g
              /\ last' = Call("update", res.ret, dt, res.locked)
              /\ locks' = IF res.locked # NoPiece THEN locks + 1 ELSE locks

TogglePause ==
    /\ Loaded
    /\ game' = toggle_pause(game)
    /\ last' = Call("toggle_pause", TRUE, 0, NoPiece)
    /\ UNCHANGED locks

\* the calls of a driver that lets no time pass ; once DropLocks pieces
\* are locked a run only calls hold_piece
NextDrop ==
    \/ LoadDropBoard
    \/ HoldPiece
    \/ /\ locks < DropLocks
       /\ \/ MoveLeft
          \/ MoveRight
          \/ MoveDown
          \/ RotateClockwise
          \/ RotateCounterclockwise
          \/ HardDrop

SpecDrop == InitDrop /\ [][NextDrop]_vars

\* the calls of the controller that act on a running game
Next ==
    \/ LoadTimeBoard
    \/ MoveLeft
    \/ MoveRight
    \/ MoveDown
    \/ RotateClockwise
    \/ RotateCounterclockwise
    \/ HardDrop
    \/ HoldPiece
    \/ Update

Spec == Init /\ [][Next]_vars

LoadPauseBoard ==
    /\ last.op = "new"
    /\ \E b \in PauseBoards : game' = [game EXCEPT !.board = b]
    /\ last' = Call("load", TRUE, 0, NoPiece)
    /\ UNCHANGED locks

\* every call of the controller, toggle_pause included
NextPause ==
    \/ LoadPauseBoard
    \/ MoveLeft
    \/ MoveRight
    \/ MoveDown
    \/ RotateClockwise
    \/ RotateCounterclockwise
    \/ HardDrop
    \/ HoldPiece
    \/ Update
    \/ TogglePause

SpecPause == Init /\ [][NextPause]_vars

(* ---------------------------------------------------------------------- *)
(* Board::can_place applied to boards and pieces drawn at the start        *)
(* ---------------------------------------------------------------------- *)
PlaceBoards == {EmptyBoard, DemoBoard}

\* every shape and orientation with its pivot up to PivotMargin cells
\* outside the board
PlacePieces ==
    {[piece_type |-> t, row |-> r, col |-> c, rotation |-> o] :
        t \in PieceType, o \in Rotation,
        r \in (-PivotMargin)..(BOARD_HEIGHT - 1 + PivotMargin),
        c \in (-PivotMargin)..(BOARD_WIDTH - 1 + PivotMargin)}

InitPlace ==
    /\ \E b \in PlaceBoards : \E p \in PlacePieces :
          game = [NewGame(Reverse(TimeOrder)) EXCEPT !.board = b, !.current_piece = p]
    /\ last = Call("new", TRUE, 0, NoPiece)
    /\ locks = 0

CanPlace ==
    /\ last.op = "new"
    /\ last' = Call("can_place", can_place(game.board, game.current_piece), 0, NoPiece)
    /\ UNCHANGED <<game, locks>>

SpecPlace == InitPlace /\ [][CanPlace]_vars

\* C1 : can_place returns false if any of the four cells of the piece, at
\* its signed position, lies outside columns [0,W) x rows [0,H) or on an
\* occupied cell, and returns true otherwise.
C1_CanPlaceContract ==
    last.op = "can_place" =>
        (last.ret <=> AllCellsLegal(game.board, game.current_piece))

(* ---------------------------------------------------------------------- *)
(* Board::clear_lines applied to boards drawn at the start                 *)
(* ---------------------------------------------------------------------- *)
\* a row is complete, empty, or filled except the column of its index
RowKinds == {"full", "empty", "part"}

RowOfKind(k, r) ==
    [c \in Cols |-> IF k = "full" THEN "O"
                    ELSE IF k = "empty" THEN "Empty"
                    ELSE IF c = r % BOARD_WIDTH THEN "Empty" ELSE "O"]

\* the boards whose rows above the bottom ScanRows rows are empty
ClearBoards ==
    {[r \in Rows |-> IF r < BOARD_HEIGHT - ScanRows THEN EmptyRow
                     ELSE RowOfKind(ks[r - (BOARD_HEIGHT - ScanRows) + 1], r)] :
        ks \in [1..ScanRows -> RowKinds]}

InitClear ==
    /\ \E b \in ClearBoards :
          game = [NewGame(Reverse(TimeOrder)) EXCEPT !.board = b]
    /\ last = Call("new", TRUE, 0, NoPiece)
    /\ locks = 0

ClearLines ==
    /\ last.op = "new"
    /\ \E cl \in {clear_lines(game.board)} :
          /\ game' = [game EXCEPT !.board = cl.board]
          /\ last' = Call("clear_lines", cl.lines_cleared, 0, NoPiece)
    /\ UNCHANGED locks

SpecClear == InitClear /\ [][ClearLines]_vars

\* C2 : clear_lines returns the number of rows that were complete before
\* the call, leaves no row fully occupied, and leaves the incomplete rows
\* with their content and order packed toward the bottom under empty rows,
\* also when complete rows are adjacent.
C2_ClearLinesContract ==
    [][last'.op = "clear_lines" =>
          /\ last'.ret = Cardinality(CompleteRows(game.board))
          /\ CompleteRows(game'.board) = {}
          /\ game'.board = Compacted(game.board)]_vars

(* ---------------------------------------------------------------------- *)
(* Locks : scoring                                                         *)
(* ---------------------------------------------------------------------- *)
\* the step is a call that handed a piece to lock_piece
Locking == last'.locked # NoPiece

\* the board with the locked piece written on it, before rows are removed
LockPlaced == place_piece(game.board, last'.locked)

\* the rows the lock completes
LockCompleted == Cardinality(CompleteRows(LockPlaced))

\* the points of the step that are drop points
DropPoints ==
    IF last'.op = "hard_drop"
    THEN 2 * (last'.locked.row - game.current_piece.row)
    ELSE 0

\* the points the lock itself adds
LockPoints == game'.score_system.score - game.score_system.score - DropPoints

\* the rows the lock removed, as the score system counted them
LockRemoved == game'.score_system.lines_cleared - game.score_system.lines_cleared

\* C3 : a lock that completes k rows, k in 1..4, with no spin (and without
\* emptying the board) adds exactly 100/300/500/800 times the current level
\* beyond the drop points and adds k to lines_cleared.
C3_LineScore ==
    [][(/\ Locking
        /\ LockCompleted \in 1..4
        /\ RefSpin(game.board, last'.locked) = "None"
        /\ Compacted(LockPlaced) # EmptyBoard)
       => /\ LockPoints = RefLineScore("None", LockCompleted) * game.score_system.level
          /\ LockRemoved = LockCompleted]_vars

\* C4 : a lock of a T piece with at least 3 of the 4 diagonal neighbours of
\* its pivot occupied or off the board is scored with the full-spin or the
\* mini-spin column of the table for the rows it removes (and never empties
\* the board in these runs); every other lock that does not empty the board
\* is scored with the no-spin column.
C4_SpinScore ==
    [][(Locking /\ game'.board # EmptyBoard)
       => LockPoints = RefLineScore(RefSpin(game.board, last'.locked), LockRemoved)
                           * game.score_system.level]_vars

\* C5 : a lock that completes k >= 1 rows and leaves nothing else on the
\* board empties it and adds the perfect-clear bonus 800/1200/1800/2000
\* times the level on top of the line score; a lock that removes no row or
\* leaves cells on the board adds no such bonus.
C5_PerfectClear ==
    [][Locking =>
          LET spin == detect_tspin([game EXCEPT !.current_piece = NoPiece])
          IN  IF LockCompleted >= 1 /\ Compacted(LockPlaced) = EmptyBoard
              THEN /\ game'.board = EmptyBoard
                   /\ LockPoints = (RefLineScore(spin, LockCompleted)
                                    + RefPerfectClear(LockCompleted))
                                   * game.score_system.level
              ELSE LockPoints = RefLineScore(spin, LockRemoved)
                                    * game.score_system.level]_vars

(* ---------------------------------------------------------------------- *)
(* Lock delay                                                              *)
(* ---------------------------------------------------------------------- *)
\* the calls that may reset the lock-delay timer
ResetOps == {"move_left", "move_right", "rotate_clockwise", "rotate_counterclockwise"}

\* C6 : the reset counter never exceeds 15; a successful move or rotation
\* made while lock delay is active zeroes the timer and counts as a reset
\* while fewer than 15 resets were made since the activation, and the 16th
\* and later ones leave the timer (and the counter) unchanged.
C6_ResetCap ==
    [][/\ game'.lock_delay_resets <= 15
       /\ (last'.op \in ResetOps /\ last'.ret /\ game.lock_delay_active)
          => IF game.lock_delay_resets < 15
             THEN /\ game'.lock_delay_timer = 0
                  /\ game'.lock_delay_resets = game.lock_delay_resets + 1
             ELSE /\ game'.lock_delay_timer = game.lock_delay_timer
                  /\ game'.lock_delay_resets = game.lock_delay_resets]_vars

\* a successful move or rotation was made after 15 resets and has left the
\* running timer as it was
C6_SixteenthMove ==
    /\ last.op \in ResetOps
    /\ last.ret
    /\ game.lock_delay_active
    /\ game.lock_delay_resets = 15
    /\ game.lock_delay_timer > 0

\* the piece the next queued shape spawns as
NextSpawn == NewPiece(Head(game.randomizer.preview_queue),
                      SpawnRow(Head(game.randomizer.preview_queue)), SpawnCol)

\* the step is a call of update made while the game is being played
Updating == last'.op = "update" /\ last'.ret

\* the gravity interval is reached by the call
GravityDue == game.time_since_last_drop + last'.dt >= game.gravity_delay

\* the active piece cannot move down
Grounded ==
    /\ game.current_piece # NoPiece
    /\ ~can_place(game.board, with_down_move(game.current_piece))

\* lock delay is active when the call comes to its lock-delay part : it was
\* active and the gravity part has not moved the piece down, or the gravity
\* part has found the piece grounded
ActiveAtExpiryTest ==
    /\ game.current_piece # NoPiece
    /\ IF GravityDue THEN Grounded ELSE game.lock_delay_active

\* the lock-delay time accumulated when the call has added its dt : the
\* gravity part zeroes the timer when it moves the piece or activates
TimeAtExpiryTest ==
    (IF GravityDue /\ (~Grounded \/ ~game.lock_delay_active)
        THEN 0 ELSE game.lock_delay_timer) + last'.dt

\* C7 : update locks the active piece if and only if lock delay is active
\* (when the call comes to its lock-delay part) and the lock-delay time
\* accumulated since the last timer reset, this call's dt included, has
\* reached 500 ms; the locking call commits the piece to the board, clears
\* lock delay and draws the next piece; a call that locks nothing leaves
\* the board as it is.
C7_LockOnExpiry ==
    [][Updating =>
          /\ Locking <=> (ActiveAtExpiryTest /\ TimeAtExpiryTest >= 500)
          /\ Locking =>
                /\ last'.locked.piece_type = game.current_piece.piece_type
                /\ \E placed \in {place_piece(game.board, last'.locked)} :
                      game'.board = clear_lines(placed).board
                /\ ~game'.lock_delay_active
                /\ game'.lock_delay_timer = 0
                /\ \E perm \in ShuffleOutcomes :
                      game'.randomizer = RandNext(game.randomizer, perm).rz
                /\ IF can_place(game'.board, NextSpawn)
                   THEN game'.current_piece = NextSpawn
                   ELSE game'.current_piece = NoPiece /\ game'.state = "GameOver"
          /\ ~Locking => game'.board = game.board]_vars

\* update has locked a piece whose lock-delay time accumulated over more
\* than one call
C7_LockedAfterTwoCalls ==
    /\ last.op = "update"
    /\ last.dt = 250
    /\ last.locked # NoPiece

\* C8 : an update call that reaches the gravity interval and finds the
\* piece grounded while lock delay was not active activates lock delay with
\* the reset counter zeroed and does not lock in the same call : the active
\* piece and the board are those of before.
C8_NoImmediateLock ==
    [][(Updating /\ GravityDue /\ Grounded /\ ~game.lock_delay_active)
       => /\ ~Locking
          /\ game'.lock_delay_active
          /\ game'.lock_delay_resets = 0
          /\ game'.current_piece = game.current_piece
          /\ game'.board = game.board]_vars

(* ---------------------------------------------------------------------- *)
(* Hold                                                                    *)
(* ---------------------------------------------------------------------- *)
Holding == last'.op = "hold_piece"

\* C9 : a successful hold forbids holding; while holding is forbidden
\* hold_piece returns false and changes nothing, and only a lock allows it
\* again; every lock allows it again, and when allowed hold_piece succeeds
\* if there is an active piece.
C9_HoldOncePerLock ==
    [][/\ (Holding /\ ~game.can_hold) => (~last'.ret /\ game' = game)
       /\ (Holding /\ last'.ret) => ~game'.can_hold
       /\ (~game.can_hold /\ ~Locking) => ~game'.can_hold
       /\ Locking => game'.can_hold
       /\ (Holding /\ game.can_hold /\ game.current_piece # NoPiece)
             => last'.ret]_vars

\* after a lock hold_piece has succeeded and a further hold_piece has been
\* rejected
C9_SecondHoldRejected ==
    /\ last.op = "hold_piece"
    /\ ~last.ret
    /\ ~game.can_hold
    /\ locks >= 1

\* C10 : a successful hold with an empty slot stores the active shape and
\* spawns the next queued shape, consuming exactly that one shape (the game
\* is over, without active piece, if it cannot be placed); with an occupied
\* slot the held shape becomes the active piece at column W/2-1, row 0 (-1
\* for I), orientation North, the active shape becomes held and the piece
\* source is unchanged. The board is unchanged in both cases.
C10_HoldSwap ==
    [][(Holding /\ last'.ret) =>
          /\ game'.held_piece = game.current_piece.piece_type
          /\ game'.board = game.board
          /\ IF game.held_piece = "None"
             THEN /\ Tail(game.randomizer.preview_queue)
                        = SubSeq(game'.randomizer.preview_queue, 1, PREVIEW_SIZE - 1)
                  /\ Len(game'.randomizer.preview_queue) = PREVIEW_SIZE
                  /\ IF can_place(game.board, NextSpawn)
                     THEN game'.current_piece = NextSpawn
                     ELSE game'.current_piece = NoPiece /\ game'.state = "GameOver"
             ELSE /\ game'.current_piece =
                        [piece_type |-> game.held_piece,
                         row |-> IF game.held_piece = "I" THEN -1 ELSE 0,
                         col |-> (BOARD_WIDTH \div 2) - 1,
                         rotation |-> "North"]
                  /\ game'.randomizer = game.randomizer]_vars

\* a hold has swapped : the shape held before the lock is active again and
\* the shape drawn after the lock is held
C10_Swapped ==
    /\ last.op = "hold_piece"
    /\ last.ret
    /\ locks >= 1
    /\ game.held_piece = "O"
    /\ game.current_piece # NoPiece
    /\ game.current_piece.piece_type = "T"

(* ---------------------------------------------------------------------- *)
(* Game over and pause                                                     *)
(* ---------------------------------------------------------------------- *)
\* the calls that report success with a boolean
BoolOps == {"move_left", "move_right", "move_down", "rotate_clockwise",
            "rotate_counterclockwise", "hard_drop", "hold_piece", "update"}

\* C11 : once the state is GameOver every call of move_left, move_right,
\* move_down, rotate_clockwise, rotate_counterclockwise, hard_drop,
\* hold_piece and update returns false, toggle_pause leaves the state
\* GameOver, and none of them changes the board, the score, the held shape
\* or the piece source.
C11_GameOverAbsorbing ==
    [][game.state = "GameOver" =>
          /\ game'.state = "GameOver"
          /\ last'.op \in BoolOps => ~last'.ret
          /\ game'.board = game.board
          /\ game'.score_system = game.score_system
          /\ game'.held_piece = game.held_piece
          /\ game'.randomizer = game.randomizer
          /\ game'.current_piece = NoPiece]_vars

\* hard_drop was called after the game was over and was rejected
C11_RejectedAfterGameOver ==
    /\ game.state = "GameOver"
    /\ last.op = "hard_drop"
    /\ ~last.ret

\* the cells of the next queued shape at its spawn position that lie on
\* the board
SpawnCellsOnBoard ==
    {c \in {SignedCells(NextSpawn)[i] : i \in 1..4} : c[1] \in Rows /\ c[2] \in Cols}

\* some cell of the next queued shape at its spawn position is occupied
SpawnCollides(b) == \E c \in SpawnCellsOnBoard : b[c[1]][c[2]] # "Empty"

\* the step spawns the next queued shape : a lock, or a successful hold
\* with an empty hold slot
Spawning == Locking \/ (Holding /\ last'.ret /\ game.held_piece = "None")

\* C12 : a step that spawns a piece whose cells at the spawn position meet
\* an occupied cell of the board (as the step leaves it) ends in GameOver
\* without active piece, a spawn that meets none leaves the state as it
\* was with the spawned piece active, and no other step enters GameOver.
C12_GameOverOnSpawn ==
    [][/\ Spawning =>
             IF SpawnCollides(game'.board)
             THEN game'.state = "GameOver" /\ game'.current_piece = NoPiece
             ELSE game'.state = game.state /\ game'.current_piece = NextSpawn
       /\ (game.state # "GameOver" /\ game'.state = "GameOver")
             => (Spawning /\ SpawnCollides(game'.board))]_vars

\* a lock has ended the game
C12_LockEndedGame ==
    /\ game.state = "GameOver"
    /\ last.locked # NoPiece
    /\ game.current_piece = NoPiece

\* C13 : update called in state Paused or GameOver returns false and
\* leaves every field of the game as it was; called in state Playing it
\* returns true.
C13_UpdateOnlyWhenPlaying ==
    [][last'.op = "update" =>
          IF game.state = "Playing"
          THEN last'.ret
          ELSE ~last'.ret /\ game' = game]_vars

\* update was called on a paused game whose gravity interval it would
\* have reached
C13_PausedUpdate ==
    /\ game.state = "Paused"
    /\ last.op = "update"
    /\ ~last.ret
    /\ game.time_since_last_drop + last.dt >= game.gravity_delay

(* ---------------------------------------------------------------------- *)
(* Rotations applied to boards and pieces drawn at the start               *)
(* ---------------------------------------------------------------------- *)
\* the board of rotation.rs test_rotation_blocked_completely : rows 3..7 of
\* columns 3..7 filled except the cell (5,5)
RingBoard ==
    [r \in Rows |-> [c \in Cols |->
        IF r \in 3..7 /\ c \in 3..7 /\ ~(r = 5 /\ c = 5) THEN "I" ELSE "Empty"]]

\* the board of rotation.rs test_i_piece_wall_kick : cells (5..8, 7) filled
PillarBoard ==
    [r \in Rows |-> [c \in Cols |-> IF r \in 5..8 /\ c = 7 THEN "I" ELSE "Empty"]]

TurnBoards == {EmptyBoard, RingBoard, PillarBoard}

\* a run makes at most MaxTurns rotations, all in the same direction
MaxTurns == 4

\* the record of a run of rotations : the last call as in Call, the piece
\* the run started with and the number of rotations made
Turn(op, ret, start, turns) ==
    [op |-> op, ret |-> ret, dt |-> 0, locked |-> NoPiece,
     start |-> start, turns |-> turns]

\* the active piece is any piece the board accepts (can_place) with its
\* pivot up to PivotMargin cells outside the board
InitTurn ==
    /\ \E b \in TurnBoards : \E p \in PlacePieces :
          /\ can_place(b, p)
          /\ game = [NewGame(Reverse(TimeOrder)) EXCEPT !.board = b, !.current_piece = p]
          /\ last = Turn("new", TRUE, p, 0)
    /\ locks = 0

TurnWith(op, result) ==
    /\ last.op \in {"new", op}
    /\ last.turns < MaxTurns
    /\ \E res \in {result} :
          /\ game' = res.g
          /\ last' = Turn(op, res.ret, last.start, last.turns + 1)
    /\ UNCHANGED locks

TurnClockwise == TurnWith("rotate_clockwise", rotate_clockwise(game))

TurnCounterclockwise ==
    TurnWith("rotate_counterclockwise", rotate_counterclockwise(game))

NextTurn == TurnClockwise \/ TurnCounterclockwise

SpecTurn == InitTurn /\ [][NextTurn]_vars

\* the step is a rotation call
Rotating == last'.op \in {"rotate_clockwise", "rotate_counterclockwise"}

\* the orientation the call turns the active piece to
Target ==
    IF last'.op = "rotate_clockwise"
    THEN rotate_cw(game.current_piece.rotation)
    ELSE rotate_ccw(game.current_piece.rotation)

\* the kick list of the call
KickList ==
    get_kick_offsets(game.current_piece.piece_type, game.current_piece.rotation, Target)

\* the reoriented piece displaced by the i-th offset of the list
Displaced(i) ==
    [piece_type |-> game.current_piece.piece_type,
     row |-> game.current_piece.row + KickList[i][1],
     col |-> game.current_piece.col + KickList[i][2],
     rotation |-> Target]

\* C14 : the kick list starts with the zero offset; if some offset of the
\* list gives a placeable piece the rotation succeeds and the active piece
\* is the reoriented piece displaced by the first such offset in table
\* order; if none does the rotation fails and the active piece keeps its
\* orientation and pivot.
C14_FirstPlaceableKick ==
    [][Rotating =>
          /\ KickList[1] = <<0, 0>>
          /\ IF \E i \in 1..Len(KickList) : can_place(game.board, Displaced(i))
             THEN /\ last'.ret
                  /\ \E i \in 1..Len(KickList) :
                        /\ can_place(game.board, Displaced(i))
                        /\ \A j \in 1..(i - 1) : ~can_place(game.board, Displaced(j))
                        /\ game'.current_piece = Displaced(i)
             ELSE /\ ~last'.ret
                  /\ game'.current_piece = game.current_piece]_vars

\* a rotation has succeeded through the third offset of a list of which a
\* later offset is placeable too
C14_KickedPastTwo ==
    /\ last.op = "rotate_clockwise"
    /\ last.ret
    /\ last.turns = 1
    /\ game.board = PillarBoard
    /\ LET ks == get_kick_offsets(last.start.piece_type, last.start.rotation,
                                  game.current_piece.rotation)
       IN  /\ Len(ks) >= 4
           /\ game.current_piece.row = last.start.row + ks[3][1]
           /\ game.current_piece.col = last.start.col + ks[3][2]
           /\ ks[3] # ks[2]
           /\ can_place(game.board, [game.current_piece EXCEPT
                                        !.row = last.start.row + ks[4][1],
                                        !.col = last.start.col + ks[4][2]])

\* the piece is on the board and on empty cells in every orientation
Unobstructed(b, p) ==
    \A r \in Rotation : AllCellsLegal(b, [p EXCEPT !.rotation = r])

\* C15 : four successive rotations in the same direction of a piece that
\* is unobstructed in all four orientations give back the piece the run
\* started with, orientation and pivot.
C15_FourTurns ==
    (last.op \in {"rotate_clockwise", "rotate_counterclockwise"}
        /\ last.turns = 4 /\ Unobstructed(game.board, last.start))
    => game.current_piece = last.start

\* an unobstructed I piece has made four clockwise rotations
C15_TurnedFourTimes ==
    /\ last.op = "rotate_clockwise"
    /\ last.turns = 4
    /\ last.start.piece_type = "I"
    /\ Unobstructed(game.board, last.start)
    /\ game.current_piece = last.start

\* every cell of the piece is on the board
CellsInside(p) ==
    \A i \in 1..4 : SignedCells(p)[i][1] \in Rows /\ SignedCells(p)[i][2] \in Cols

\* the piece has a cell in the first or in the last column
AtWall(p) ==
    \E i \in 1..4 : SignedCells(p)[i][2] \in {0, BOARD_WIDTH - 1}

\* the piece has a cell left of column 0 or right of column W-1
BeyondWall(p) == \E i \in 1..4 : SignedCells(p)[i][2] \notin Cols

\* C16 : on the empty board, a rotation of an I piece that lies inside the
\* board with a cell in column 0 or W-1, whose zero offset puts a cell of
\* the reoriented piece beyond that wall, succeeds through a non-zero
\* offset and leaves every cell of the piece inside the board.
C16_WallKick ==
    [][(/\ Rotating
        /\ game.board = EmptyBoard
        /\ game.current_piece.piece_type = "I"
        /\ CellsInside(game.current_piece)
        /\ AtWall(game.current_piece)
        /\ BeyondWall(Displaced(1)))
       => /\ last'.ret
          /\ game'.current_piece # Displaced(1)
          /\ CellsInside(game'.current_piece)]_vars

(* ---------------------------------------------------------------------- *)
(* The piece source run alone                                              *)
(* ---------------------------------------------------------------------- *)
\* the bag as refill_bag builds it before the shuffle
UnshuffledBag == <<"I", "O", "T", "S", "Z", "J", "L">>

\* the bags a shuffle leaves in the runs of the piece source
BagShuffles == ShuffleOutcomes \cup {UnshuffledBag}

\* a run calls next at most MaxDraws times
MaxDraws == 15

\* the counts handed to peek
PeekCounts == 0..(PREVIEW_SIZE + 1)

\* the record of a run of the piece source : the last call and what it
\* returned, the shapes next has returned so far, and the count, the
\* result and the position (number of draws made before) of the last peek
Source(op, ret, drawn, count, seen, seen_at) ==
    [op |-> op, ret |-> ret, dt |-> 0, locked |-> NoPiece,
     drawn |-> drawn, count |-> count, seen |-> seen, seen_at |-> seen_at]

\* only the piece source of the game is run
InitBag ==
    /\ \E perm \in BagShuffles : game = [randomizer |-> NewRandomizer(perm)]
    /\ last = Source("new", TRUE, << >>, 0, << >>, 0)
    /\ locks = 0

BagNext ==
    /\ Len(last.drawn) < MaxDraws
    /\ \E perm \in (IF game.randomizer.bag = << >> THEN BagShuffles
                     ELSE {UnshuffledBag}) :
          \E res \in {RandNext(game.randomizer, perm)} :
              /\ game' = [game EXCEPT !.randomizer = res.rz]
              /\ last' = Source("next", res.item, Append(last.drawn, res.item),
                                last.count, last.seen, last.seen_at)
    /\ UNCHANGED locks

BagPeek ==
    /\ \E n \in PeekCounts : \E shapes \in {peek_next_pieces(game, n)} :
          last' = Source("peek", shapes, last.drawn, n, shapes, Len(last.drawn))
    /\ UNCHANGED <<game, locks>>

NextBag == BagNext \/ BagPeek

SpecBag == InitBag /\ [][NextBag]_vars

\* the shapes of draws i .. i+6
Run7(i) == SubSeq(last.drawn, i, i + 6)

\* the number of times shape t occurs in the sequence
Occurrences(sq, t) == Cardinality({i \in 1..Len(sq) : sq[i] = t})

\* every shape occurs exactly once
EachOnce(sq) == \A t \in PieceType : Occurrences(sq, t) = 1

\* C17 : for every k >= 0 the draws 7k+1 .. 7k+7 of a fresh piece source
\* contain each of the 7 shapes exactly once, whatever the shuffles gave.
C17_BagAligned ==
    \A k \in 0..(Len(last.drawn) \div 7) :
        7 * k + 7 <= Len(last.drawn) => EachOnce(Run7(7 * k + 1))

\* two full bags were drawn and their orders differ
C17_TwoBagsDrawn ==
    /\ Len(last.drawn) >= 14
    /\ Run7(1) # Run7(8)

\* C18 as claimed : every run of 7 consecutive draws, starting at any draw
\* index, contains each of the 7 shapes exactly once.
C18_AnySevenRun ==
    \A i \in 1..Len(last.drawn) :
        i + 6 <= Len(last.drawn) => EachOnce(Run7(i))

\* C18 as amended : a run of 7 consecutive draws that starts at a bag
\* boundary (draw 7k+1) contains each of the 7 shapes exactly once; a run
\* that starts elsewhere lies across two bags and contains no shape more
\* than twice.
C18_SevenRunAcrossBags ==
    \A i \in 1..Len(last.drawn) :
        i + 6 <= Len(last.drawn) =>
            /\ i % 7 = 1 => EachOnce(Run7(i))
            /\ \A t \in PieceType : Occurrences(Run7(i), t) <= 2

\* a run of 7 draws across two bags holds a shape twice
C18_RepeatAcrossBags ==
    \E i \in 1..Len(last.drawn) :
        /\ i + 6 <= Len(last.drawn)
        /\ i % 7 # 1
        /\ \E t \in PieceType : Occurrences(Run7(i), t) = 2

\* C19 : the look-ahead queue holds exactly 5 shapes before and after
\* every call; peek(n) leaves the piece source unchanged and returns the
\* first min(n, 5) shapes of the queue; the draws made after a peek return
\* the shapes it returned, in the same order.
C19_PeekPreview ==
    [][/\ Len(game.randomizer.preview_queue) = 5
       /\ Len(game'.randomizer.preview_queue) = 5
       /\ last'.op = "peek" =>
             /\ game' = game
             /\ Len(last'.ret) = (IF last'.count < 5 THEN last'.count ELSE 5)
             /\ \A i \in 1..Len(last'.ret) :
                   last'.ret[i] = game.randomizer.preview_queue[i]
       /\ \A i \in 1..Len(last'.seen) :
             last'.seen_at + i <= Len(last'.drawn)
                => last'.drawn[last'.seen_at + i] = last'.seen[i]]_vars

\* a peek for more shapes than the queue holds returned 5 shapes and the
\* 5 draws that followed, during which the bag was refilled, were made
C19_PeekedThenDrawn ==
    /\ last.op = "next"
    /\ last.count = PREVIEW_SIZE + 1
    /\ Len(last.seen) = 5
    /\ last.seen_at = 1
    /\ Len(last.drawn) = 6

(* ---------------------------------------------------------------------- *)
(* hard_drop applied to boards and pieces installed at the start           *)
(* ---------------------------------------------------------------------- *)
\* the two bottom rows filled except column 0 : a shaft at the left wall
LedgeBoard ==
    LET Hole(r, c) == r < BOARD_HEIGHT - 2 \/ c = 0
    IN  FilledExcept(Hole)

FallBoards == {EmptyBoard, TeeBoard, LedgeBoard}

\* the active piece is any piece the board accepts (can_place) with its
\* pivot up to PivotMargin cells outside the board
InitFall ==
    /\ \E b \in FallBoards : \E p \in PlacePieces :
          /\ can_place(b, p)
          /\ game = [NewGame(Reverse(DropOrder)) EXCEPT !.board = b, !.current_piece = p]
    /\ last = Call("load", TRUE, 0, NoPiece)
    /\ locks = 0

\* a hard_drop whose descent loop does not end : the piece was taken out
\* of current_piece and the call returns nothing (ret FALSE stands for
\* "has not returned true")
HardDropStuck ==
    /\ Loaded
    /\ HardDropHangs(game)
    /\ game' = [game EXCEPT !.current_piece = NoPiece]
    /\ last' = Call("hard_drop", FALSE, 0, NoPiece)
    /\ UNCHANGED locks

NextFall == (locks < DropLocks /\ HardDrop) \/ HardDropStuck

SpecFall == InitFall /\ [][NextFall]_vars

\* the active piece moved down by k rows
Lowered(k) == [game.current_piece EXCEPT !.row = game.current_piece.row + k]

\* the active piece can fall exactly d rows : every position down to d
\* rows lower is placeable and the next one is not
FallsExactly(d) ==
    /\ \A k \in 1..d : can_place(game.board, Lowered(k))
    /\ ~can_place(game.board, Lowered(d + 1))

\* C20 : hard_drop without an active piece returns false and changes
\* nothing; with an active piece it returns true, the piece has fallen the
\* largest distance d over placeable positions, the game is the one
\* lock_piece leaves for the piece at that position with exactly 2*d more
\* points, and lock delay is inactive afterwards.
C20_HardDrop ==
    [][last'.op = "hard_drop" =>
          IF game.current_piece = NoPiece
          THEN ~last'.ret /\ game' = game
          ELSE /\ last'.ret
               /\ \E d \in 0..(2 * BOARD_HEIGHT) :
                     /\ FallsExactly(d)
                     /\ last'.locked = Lowered(d)
                     /\ \E perm \in ShuffleOutcomes :
                           \E lk \in {lock_piece([game EXCEPT !.current_piece = Lowered(d)], perm)} :
                               game' = [lk EXCEPT !.score_system.score = @ + 2 * d]
               /\ ~game'.lock_delay_active]_vars

(* ---------------------------------------------------------------------- *)
(* Moves of the active piece                                               *)
(* ---------------------------------------------------------------------- *)
\* the lock-delay fields of the game
LockDelay(g) ==
    [active |-> g.lock_delay_active, timer |-> g.lock_delay_timer,
     resets |-> g.lock_delay_resets]

C22_MoveDownResets ==
    [][(/\ last'.op = "move_down"
        /\ last'.ret
        /\ game.lock_delay_active
        /\ game.lock_delay_resets < MAX_LOCK_RESETS) =>
          /\ game'.lock_delay_timer = 0
          /\ game'.lock_delay_resets = game.lock_delay_resets + 1]_vars

\* the calls that fail without side effect
RejectOps ==
    {"move_left", "move_right", "rotate_clockwise",
     "rotate_counterclockwise", "hold_piece"}

\* C23 : a move_left, move_right, rotate_clockwise,
\* rotate_counterclockwise or hold_piece that returns false leaves the
\* whole game unchanged; a move_left or move_right that returns true
\* changes the pivot column by exactly one (down for left, up for right)
\* and leaves row, orientation, shape and board unchanged.
C23_RejectedUnchanged ==
    [][/\ (last'.op \in RejectOps /\ ~last'.ret) =>
              (game' = game /\ locks' = locks)
       /\ (last'.op \in {"move_left", "move_right"} /\ last'.ret) =>
              /\ game.current_piece # NoPiece
              /\ game'.current_piece =
                    [game.current_piece EXCEPT
                        !.col = IF last'.op = "move_left" THEN @ - 1 ELSE @ + 1]
              /\ game'.board = game.board]_vars

\* a move to the side was rejected while lock delay was running with time
\* on its timer
C23_RejectedWhileDelayed ==
    /\ last.op \in {"move_left", "move_right"}
    /\ ~last.ret
    /\ game.current_piece # NoPiece
    /\ game.lock_delay_active
    /\ game.lock_delay_timer > 0

(* ---------------------------------------------------------------------- *)
(* The score system under the calls the controller makes on it             *)
(* ---------------------------------------------------------------------- *)
\* a run scores until MaxLines lines are counted or MaxScore points made
MaxLines == 12

MaxScore == 300

\* the spin classes detect_tspin returns
SpinTypes == {"None", "Mini", "Full"}

\* the distances hard_drop hands to add_hard_drop_score in the runs
DropDistances == {0, 1, BOARD_HEIGHT - 2}

InitScore ==
    /\ game = [score_system |-> NewScoreSystem]
    /\ last = [op |-> "new", lines |-> 0, spin |-> "None"]
    /\ locks = 0

Scoring ==
    /\ game.score_system.lines_cleared < MaxLines
    /\ game.score_system.score < MaxScore

\* move_down : one soft-drop point
ScoreSoftDrop ==
    /\ Scoring
    /\ game' = [game EXCEPT !.score_system = add_soft_drop_score(@, 1)]
    /\ last' = [op |-> "move_down", lines |-> 0, spin |-> "None"]
    /\ UNCHANGED locks

\* hard_drop : the points of the distance fallen
ScoreHardDrop ==
    /\ Scoring
    /\ \E d \in DropDistances :
          game' = [game EXCEPT !.score_system = add_hard_drop_score(@, d)]
    /\ last' = [op |-> "hard_drop", lines |-> 0, spin |-> "None"]
    /\ UNCHANGED locks

\* lock_piece : the points of the lines cleared and of the spin, and the
\* perfect-clear bonus when lines were cleared and the board is empty
ScoreLock ==
    /\ Scoring
    /\ \E lines \in 0..4, tspin \in SpinTypes, is_pc \in BOOLEAN :
          /\ is_pc => lines > 0
          /\ \E ss1 \in {add_score_for_lines_with_tspin(game.score_system, lines, tspin)} :
                game' = [game EXCEPT !.score_system =
                            IF is_pc THEN add_perfect_clear_bonus(ss1, lines)
                            ELSE ss1]
          /\ last' = [op |-> "lock_piece", lines |-> lines, spin |-> tspin]
    /\ locks' = locks

NextScore == ScoreSoftDrop \/ ScoreHardDrop \/ ScoreLock

SpecScore == InitScore /\ [][NextScore]_vars

\* C24 : no call lowers the score or the count of cleared lines, and
\* before and after every call level = (lines_cleared div 10) + 1, which
\* is 1 at the start (scores within the range of the u32 field).
C24_ScoreMonotone ==
    [][/\ game'.score_system.score >= game.score_system.score
       /\ game'.score_system.lines_cleared >= game.score_system.lines_cleared
       /\ game.score_system.level = (game.score_system.lines_cleared \div 10) + 1
       /\ game'.score_system.level = (game'.score_system.lines_cleared \div 10) + 1
       /\ (last.op = "new" => game.score_system.level = 1)]_vars

\* a lock that cleared lines took the count of cleared lines to 10 or
\* more and the level to 2
C24_LevelUp ==
    /\ last.op = "lock_piece"
    /\ last.lines > 0
    /\ game.score_system.lines_cleared - last.lines < 10
    /\ game.score_system.lines_cleared >= 10
    /\ game.score_system.level = 2

(* ---------------------------------------------------------------------- *)
(* bot/move_finder.rs : Move, MoveFinder                                   *)
(* ---------------------------------------------------------------------- *)
\* MoveFinder::new : the default of max_moves_to_consider
DEFAULT_MAX_MOVES == 500

\* the modulus of `as u8` ; USIZE_MOD is a multiple of it, as 2^64 is
U8_MOD == 256

\* Move::new
NewMove(left_moves, right_moves, clockwise_rotations, counterclockwise_rotations, drop, hold) ==
    [left_moves |-> left_moves,
     right_moves |-> right_moves,
     clockwise_rotations |-> clockwise_rotations,
     counterclockwise_rotations |-> counterclockwise_rotations,
     hard_drop |-> drop,
     hold |-> hold]

\* the candidate pushed when holding is allowed
HoldMove == NewMove(0, 0, 0, 0, TRUE, TRUE)

\* one call of the controller named by `step`
StepOf(step, g) ==
    CASE step = "cw"    -> rotate_clockwise(g)
      [] step = "ccw"   -> rotate_counterclockwise(g)
      [] step = "left"  -> move_left(g)
      [] step = "right" -> move_right(g)

\* the rotation loop of find_possible_moves, run on a copy of the game :
\* up to n rotations, left at the first that fails
RECURSIVE RotateClone(_, _, _)
RotateClone(g, n, step) ==
    IF n = 0 THEN g
    ELSE CHOOSE out \in {IF ~res.ret THEN g ELSE RotateClone(res.g, n - 1, step) :
                            res \in {StepOf(step, g)}} : TRUE

\* the candidate for a target column, from the pivot column of the
\* rotated copy cast to usize : the distance to the target is cast to u8
MoveToward(current_position, rotations, step, position) ==
    NewMove(IF position < current_position
            THEN (current_position - position) % U8_MOD ELSE 0,
            IF position < current_position
            THEN 0 ELSE (position - current_position) % U8_MOD,
            IF step = "cw" THEN rotations ELSE 0,
            IF step = "cw" THEN 0 ELSE rotations,
            TRUE, FALSE)

\* the candidate find_possible_moves builds for a rotation count and a
\* target column (the rotated copy is bound once)
HardDropMove(g, rotations, step, position) ==
    CHOOSE new_move \in
        {MoveToward(AsUsize(game_clone.current_piece.col), rotations, step, position) :
            game_clone \in {RotateClone(g, rotations, step)}} : TRUE

\* the k-th pass (from 0) through the bodies of the two nested loops of
\* find_possible_moves : 4 clockwise counts, then 3 counter-clockwise
\* counts, each over the columns 0..BOARD_WIDTH-1
LoopMove(g, k) ==
    HardDropMove(g,
                 IF k < 4 * BOARD_WIDTH THEN k \div BOARD_WIDTH
                 ELSE (k \div BOARD_WIDTH) - 3,
                 IF k < 4 * BOARD_WIDTH THEN "cw" ELSE "ccw",
                 k % BOARD_WIDTH)

\* the list after `passes` passes through the loop bodies, pushed onto
\* the candidates `first` that were pushed before the loops
Pushed(g, first, passes) ==
    first \o [k \in 1..passes |-> LoopMove(g, k - 1)]

\* the number of passes the two loops make : every pass pushes its
\* candidate and then returns the list if its length has reached the cap,
\* so the loops end with the first pass that takes the length to the cap,
\* or with the last of the 7 * BOARD_WIDTH passes
Passes(first, max_moves_to_consider) ==
    IF \E n \in 1..(7 * BOARD_WIDTH) : Len(first) + n >= max_moves_to_consider
    THEN CHOOSE n \in 1..(7 * BOARD_WIDTH) :
            /\ Len(first) + n >= max_moves_to_consider
            /\ \A m \in 1..(n - 1) : Len(first) + m < max_moves_to_consider
    ELSE 7 * BOARD_WIDTH

\* the body of find_possible_moves after the hold candidate
PushLoop(g, first, max_moves_to_consider) ==
    Pushed(g, first, Passes(first, max_moves_to_consider))

\* MoveFinder::find_possible_moves of a finder with the given cap
find_possible_moves(g, max_moves_to_consider) ==
    IF g.current_piece = NoPiece THEN << >>
    ELSE PushLoop(g, IF g.can_hold THEN <<HoldMove>> ELSE << >>,
                  max_moves_to_consider)

\* a loop of apply_move : n calls of one step, left with false at the
\* first call that fails (the result of each call is bound once)
RECURSIVE Replay(_, _, _)
Replay(g, n, step) ==
    IF n = 0 THEN [g |-> g, ret |-> TRUE]
    ELSE CHOOSE out \in {IF ~res.ret THEN [g |-> res.g, ret |-> FALSE]
                         ELSE Replay(res.g, n - 1, step) :
                            res \in {StepOf(step, g)}} : TRUE

\* the four loops of apply_move in their order, with their step counts
ReplaySteps(move_to_apply) ==
    << <<"cw", move_to_apply.clockwise_rotations>>,
       <<"ccw", move_to_apply.counterclockwise_rotations>>,
       <<"left", move_to_apply.left_moves>>,
       <<"right", move_to_apply.right_moves>> >>

\* the loops from the i-th on, left with false when one of them is
RECURSIVE ReplayFrom(_, _, _)
ReplayFrom(g, steps, i) ==
    IF i > Len(steps) THEN [g |-> g, ret |-> TRUE]
    ELSE CHOOSE out \in {IF ~res.ret THEN res ELSE ReplayFrom(res.g, steps, i + 1) :
                            res \in {Replay(g, steps[i][2], steps[i][1])}} : TRUE

\* apply_move after the hold : the loops, then the hard drop if asked for
ReplayAndDrop(g, move_to_apply, perm) ==
    CHOOSE out \in
        {IF ~moved.ret THEN [g |-> moved.g, ret |-> FALSE, locked |-> NoPiece]
         ELSE IF ~move_to_apply.hard_drop
         THEN [g |-> moved.g, ret |-> TRUE, locked |-> NoPiece]
         ELSE hard_drop(moved.g, perm) :
            moved \in {ReplayFrom(g, ReplaySteps(move_to_apply), 1)}} : TRUE

\* MoveFinder::apply_move ; `locked` is the piece handed to lock_piece
apply_move(g, move_to_apply, perm) ==
    CHOOSE out \in
        {IF ~held.ret THEN [g |-> held.g, ret |-> FALSE, locked |-> NoPiece]
         ELSE ReplayAndDrop(held.g, move_to_apply, perm) :
            held \in {IF move_to_apply.hold /\ g.can_hold THEN hold_piece(g, perm)
                      ELSE [g |-> g, ret |-> TRUE]}} : TRUE

(* ---------------------------------------------------------------------- *)
(* bot/evaluator.rs : BoardEvaluator                                       *)
(* ---------------------------------------------------------------------- *)
\* EvaluationWeights::default, in millionths
aggregate_height_weight == -510066

complete_lines_weight == 760666

holes_weight == -356630

bumpiness_weight == -184483

well_weight == 300000

Abs(x) == IF x < 0 THEN -x ELSE x

\* the sum of f[0..c]
RECURSIVE SumCols(_, _)
SumCols(f, c) == IF c < 0 THEN 0 ELSE f[c] + SumCols(f, c - 1)

\* BoardEvaluator::get_column_heights : BOARD_HEIGHT minus the first row
\* from the top that is filled, 0 for a column without filled cell
get_column_heights(b) ==
    [c \in Cols |->
        IF \E r \in Rows : b[r][c] # "Empty"
        THEN BOARD_HEIGHT -
             (CHOOSE r \in Rows : /\ b[r][c] # "Empty"
                                  /\ \A q \in 0..(r - 1) : b[q][c] = "Empty")
        ELSE 0]

\* BoardEvaluator::count_holes
count_holes(b, column_heights) ==
    SumCols([c \in Cols |->
               Cardinality({r \in (BOARD_HEIGHT - column_heights[c] + 1)..(BOARD_HEIGHT - 1) :
                               b[r][c] = "Empty"})],
            BOARD_WIDTH - 1)

\* BoardEvaluator::count_complete_lines
count_complete_lines(b) ==
    Cardinality({r \in Rows : \A c \in Cols : b[r][c] # "Empty"})

\* BoardEvaluator::calculate_bumpiness
calculate_bumpiness(column_heights) ==
    SumCols([i \in 0..(BOARD_WIDTH - 2) |->
               Abs(column_heights[i] - column_heights[i + 1])],
            BOARD_WIDTH - 2)

\* BoardEvaluator::calculate_wells : a column at an edge takes its own
\* height for the missing neighbour
calculate_wells(column_heights) ==
    SumCols([i \in Cols |->
               LET current_height == column_heights[i]
                   left_height == IF i > 0 THEN column_heights[i - 1]
                                  ELSE current_height
                   right_height == IF i < BOARD_WIDTH - 1 THEN column_heights[i + 1]
                                   ELSE current_height
                   depth == Min(left_height, right_height) - current_height
               IN  IF current_height + 3 < left_height /\ current_height + 3 < right_height
                   THEN depth * depth ELSE 0],
            BOARD_WIDTH - 1)

\* the five metrics of BoardEvaluator::evaluate
Metrics(b) ==
    LET column_heights == get_column_heights(b)
    IN  [aggregate_height |-> SumCols(column_heights, BOARD_WIDTH - 1),
         holes |-> count_holes(b, column_heights),
         complete_lines |-> count_complete_lines(b),
         bumpiness |-> calculate_bumpiness(column_heights),
         wells |-> calculate_wells(column_heights)]

\* BoardEvaluator::evaluate, in millionths
evaluate(g) ==
    LET m == Metrics(g.board)
    IN  aggregate_height_weight * m.aggregate_height
        + holes_weight * m.holes
        + complete_lines_weight * m.complete_lines
        + bumpiness_weight * m.bumpiness
        + well_weight * m.wells

(* ---------------------------------------------------------------------- *)
(* bot/mod.rs : TetrisBot                                                  *)
(* ---------------------------------------------------------------------- *)
\* the score of every candidate on its own copy of the game
TrialScores(g, possible_moves, perm) ==
    [i \in 1..Len(possible_moves) |->
        evaluate(apply_move(g, possible_moves[i], perm).g)]

\* the selection loop with the test >= for > : the last best wins
RECURSIVE BestLoop_LastWins(_, _, _, _, _)
BestLoop_LastWins(scores, i, best_move, best_score, unset) ==
    IF i > Len(scores) THEN best_move
    ELSE IF unset \/ scores[i] >= best_score
    THEN BestLoop_LastWins(scores, i + 1, i, scores[i], FALSE)
    ELSE BestLoop_LastWins(scores, i + 1, best_move, best_score, unset)

\* the selection loop of make_move : `unset` stands for the initial
\* best_score, f64::NEG_INFINITY, which every score exceeds
RECURSIVE BestLoop(_, _, _, _, _)
BestLoop(scores, i, best_move, best_score, unset) ==
    IF i > Len(scores) THEN best_move
    ELSE IF unset \/ scores[i] > best_score
    THEN BestLoop(scores, i + 1, i, scores[i], FALSE)
    ELSE BestLoop(scores, i + 1, best_move, best_score, unset)

\* the end of make_move : the candidate at index `best` applied to the game
ApplyBest(g, possible_moves, best, perm) ==
    CHOOSE out \in
        {[g |-> res.g, ret |-> TRUE, locked |-> res.locked, best |-> best] :
            res \in {apply_move(g, possible_moves[best], perm)}} : TRUE

\* make_move after the enumeration
SelectAndApply(g, possible_moves, perm) ==
    IF possible_moves = << >>
    THEN [g |-> g, ret |-> FALSE, locked |-> NoPiece, best |-> 0]
    ELSE CHOOSE out \in
            {ApplyBest(g, possible_moves, best, perm) :
                best \in {BestLoop(scores, 1, 1, 0, TRUE) :
                             scores \in {TrialScores(g, possible_moves, perm)}}} : TRUE

\* TetrisBot::make_move ; `best` is the index of the candidate applied
make_move(g, perm) ==
    CHOOSE out \in
        {SelectAndApply(g, possible_moves, perm) :
            possible_moves \in {find_possible_moves(g, DEFAULT_MAX_MOVES)}} : TRUE

(* ---------------------------------------------------------------------- *)
(* The play loop of the bot on fresh games                                 *)
(* ---------------------------------------------------------------------- *)
\* the cyclic shifts of a sequence
Shifts(sq) ==
    {SubSeq(sq, k, Len(sq)) \o SubSeq(sq, 1, k - 1) : k \in 1..Len(sq)}

\* a third order of the seven shapes
PlayOrder == <<"S", "I", "Z", "O", "J", "T", "L">>

\* the bags the first shuffle leaves in the runs of the play loop : every
\* shape comes first, before six different queues
PlayShuffles ==
    UNION {Shifts(sq) \cup Shifts(Reverse(sq)) :
              sq \in {TimeOrder, DropOrder, PlayOrder}}

\* op : the call made last, ret : what it returned, best : the index of
\* the candidate make_move applied, tick : the parity of the number of
\* calls made
Bot(op, ret, best, tick) == [op |-> op, ret |-> ret, best |-> best, tick |-> tick]

InitPlay ==
    /\ \E perm \in PlayShuffles : game = NewGame(perm)
    /\ last = Bot("new", TRUE, 0, 0)
    /\ locks = 0

\* one pass through the loop of TetrisBot::play_game
PlayGame ==
    /\ game.state = "Playing"
    /\ last.ret
    /\ \E perm \in Refills(game) : \E res \in {make_move(game, perm)} :
          /\ game' = res.g
          /\ last' = Bot("make_move", res.ret, res.best, 1 - last.tick)
          /\ locks' = IF res.locked # NoPiece THEN locks + 1 ELSE locks

\* the condition of the loop of play_game
PlayOpen == game.state = "Playing" /\ last.ret

\* a pass through the loop as the call record shows it : one more
\* make_move has been called
PlayPass ==
    /\ PlayOpen
    /\ last' \in {Bot("make_move", ret, best, 1 - last.tick) :
                     ret \in BOOLEAN, best \in 0..(7 * BOARD_WIDTH + 1)}

\* play_game : a sequential loop, which makes its next pass whenever its
\* condition holds ; every step of PlayGame is a PlayPass and PlayGame is
\* possible whenever PlayOpen holds
SpecPlay == InitPlay /\ [][PlayGame]_vars /\ WF_last(PlayPass)

\* C25 : the first make_move on a fresh game returns true, commits the
\* active piece to the board (its four cells, of its shape, are the
\* filled cells of the board), makes the first look-ahead shape the
\* active piece and takes exactly that one shape from the look-ahead.
C25_FirstMove ==
    [][(last.op = "new" /\ last'.op = "make_move") =>
          /\ last'.ret
          /\ locks' = locks + 1
          /\ FilledCount(game'.board) = 4
          /\ \A r \in Rows, c \in Cols :
                game'.board[r][c] \in {"Empty", game.current_piece.piece_type}
          /\ game'.current_piece # NoPiece
          /\ game'.current_piece.piece_type = Head(game.randomizer.preview_queue)
          /\ SubSeq(game'.randomizer.preview_queue, 1, PREVIEW_SIZE - 1) =
                Tail(game.randomizer.preview_queue)]_vars

\* the loop of play_game has been left
PlayEnded == game.state = "GameOver" \/ ~last.ret

\* C27 : play_game started on a fresh game ends : the game is over or a
\* make_move has returned false after finitely many passes.
C27_PlayTerminates == <>PlayEnded

(* ---------------------------------------------------------------------- *)
(* The bot called on games with a board installed                          *)
(* ---------------------------------------------------------------------- *)
\* the boards installed before the bot is called
BotBoards == {TeeBoard, DemoBoard, StackBoard, PitBoard}

\* the bags the first shuffle leaves in these runs
BotShuffles == ShuffleOutcomes \cup {PlayOrder, Reverse(PlayOrder)}

\* the bot and the player are called until MaxBotLocks pieces are locked
MaxBotLocks == 1

InitBot ==
    /\ \E perm \in BotShuffles : game = NewGame(perm)
    /\ last = Bot("new", TRUE, 0, 0)
    /\ locks = 0

LoadBotBoard ==
    /\ last.op = "new"
    /\ \E b \in BotBoards : game' = [game EXCEPT !.board = b]
    /\ last' = Bot("load", TRUE, 0, 0)
    /\ UNCHANGED locks

\* make_move is also called on a game that is over
MakeMove ==
    /\ locks < MaxBotLocks \/ game.state = "GameOver"
    /\ \E perm \in Refills(game) : \E res \in {make_move(game, perm)} :
          /\ game' = res.g
          /\ last' = Bot("make_move", res.ret, res.best, 1 - last.tick)
          /\ locks' = IF res.locked # NoPiece THEN locks + 1 ELSE locks

\* apply_move called with the first candidate of the enumerator when
\* holding is allowed : the hold candidate
ApplyHoldMove ==
    /\ locks < MaxBotLocks
    /\ game.current_piece # NoPiece
    /\ game.can_hold
    /\ \E perm \in Refills(game) :
          \E res \in {apply_move(game, Head(find_possible_moves(game, DEFAULT_MAX_MOVES)), perm)} :
              /\ game' = res.g
              /\ last' = Bot("apply_move", res.ret, 1, 1 - last.tick)
              /\ locks' = IF res.locked # NoPiece THEN locks + 1 ELSE locks

\* hard_drop called by the player
BotHardDrop ==
    /\ locks < MaxBotLocks
    /\ ~HardDropHangs(game)
    /\ \E perm \in Refills(game) : \E res \in {hard_drop(game, perm)} :
          /\ game' = res.g
          /\ last' = Bot("hard_drop", res.ret, 0, 1 - last.tick)
          /\ locks' = IF res.locked # NoPiece THEN locks + 1 ELSE locks

NextBot == LoadBotBoard \/ MakeMove \/ ApplyHoldMove \/ BotHardDrop

SpecBot == InitBot /\ [][NextBot]_vars

\* the index of the first of the candidates with the greatest score
FirstBest(scores) ==
    CHOOSE i \in DOMAIN scores :
        /\ \A j \in DOMAIN scores : scores[j] <= scores[i]
        /\ \A j \in 1..(i - 1) : scores[j] < scores[i]

\* C26 : make_move returns false and changes nothing exactly when the
\* enumerator returns no candidate; otherwise it returns true and the
\* game is the result of applying the candidate whose trial board has
\* the greatest evaluator score, the first in enumeration order among
\* those with that score.
C26_CommitsFirstBest ==
    [][last'.op = "make_move" =>
          \E possible_moves \in {find_possible_moves(game, DEFAULT_MAX_MOVES)} :
              IF possible_moves = << >>
              THEN ~last'.ret /\ game' = game /\ locks' = locks
              ELSE /\ last'.ret
                   /\ \E perm \in Refills(game) :
                         \E chosen \in {FirstBest(TrialScores(game, possible_moves, perm))} :
                            game' = apply_move(game, possible_moves[chosen], perm).g]_vars

\* make_move committed a candidate other than the first, and its piece
\* was locked onto a board that held cells before
C26_PlacedByBot ==
    /\ last.op = "make_move"
    /\ last.ret
    /\ last.best > 1
    /\ locks = 1
    /\ FilledCount(game.board) > 4

\* C30 : applying the hold candidate of the enumerator to a game in which
\* holding is allowed performs the hold and nothing else : no piece is
\* locked, the board is unchanged and the game is what hold_piece alone
\* leaves, with the piece the hold made active still active.
C30_HoldOnly ==
    [][last'.op = "apply_move" =>
          /\ locks' = locks
          /\ game'.board = game.board
          /\ \E perm \in Refills(game) : game' = hold_piece(game, perm).g]_vars

(* ---------------------------------------------------------------------- *)
(* The enumerator called on games with the piece anywhere on the board     *)
(* ---------------------------------------------------------------------- *)
\* the rows the pivot of the piece is at in these runs
FindRows == {0, BOARD_HEIGHT \div 2}

\* every shape and orientation at these rows, all four cells on the board
FindPieces ==
    {p \in {[piece_type |-> t, row |-> r, col |-> c, rotation |-> o] :
               t \in PieceType, o \in Rotation, r \in FindRows,
               c \in (-PivotMargin)..(BOARD_WIDTH - 1 + PivotMargin)} :
        AllCellsLegal(EmptyBoard, p)}

\* a game that is over : the board of PitBoard installed and the first
\* piece dropped, so that the next shape collides where it spawns
OverGame ==
    hard_drop([NewGame(Reverse(TimeOrder)) EXCEPT !.board = PitBoard],
              Reverse(TimeOrder)).g

\* the caps given to MoveFinder::with_max_moves, the default among them
FindCaps ==
    {1, 2, 7 * BOARD_WIDTH + 1, DEFAULT_MAX_MOVES}

\* op : the call made last, cap : the cap of the finder, moves : the list
\* find_possible_moves returned
Found(op, cap, moves) == [op |-> op, cap |-> cap, moves |-> moves]

\* a game on the empty board with the piece moved and turned by the
\* player, holding allowed or used up ; or the game that is over
InitFind ==
    /\ \/ \E p \in FindPieces, h \in BOOLEAN :
             game = [NewGame(Reverse(TimeOrder)) EXCEPT
                        !.current_piece = p, !.can_hold = h,
                        !.held_piece = IF h THEN "None" ELSE "O"]
       \/ game = OverGame
    /\ last = Found("new", 0, << >>)
    /\ locks = 0

FindMoves ==
    /\ \E cap \in FindCaps :
          last' = Found("find_possible_moves", cap, find_possible_moves(game, cap))
    /\ UNCHANGED <<game, locks>>

SpecFind == InitFind /\ [][FindMoves]_vars

\* the number of hold candidates at the front of the list
HoldCount == IF game.can_hold THEN 1 ELSE 0

\* the pivot column a candidate leads to from the column the piece has
\* after its rotations on a copy of the game
TargetColumn(m) ==
    LET step == IF m.counterclockwise_rotations > 0 THEN "ccw" ELSE "cw"
        rotations == m.clockwise_rotations + m.counterclockwise_rotations
    IN  RotateClone(game, rotations, step).current_piece.col
        - m.left_moves + m.right_moves

\* C28 : with the default cap, find_possible_moves returns the empty list
\* for a game without active piece; otherwise it returns one hold
\* candidate exactly if holding is allowed, then for the clockwise
\* rotation counts 0..3 in turn the hard-drop candidates for the target
\* pivot columns 0..BOARD_WIDTH-1 in turn, then the same for the
\* counter-clockwise counts 1..3; a hard-drop candidate has at most one
\* of its two step counts and at most one of its two rotation counts
\* above 0.
C28_EnumerationOrder ==
    [][(last'.op = "find_possible_moves" /\ last'.cap = DEFAULT_MAX_MOVES) =>
          IF game.current_piece = NoPiece THEN last'.moves = << >>
          ELSE /\ Len(last'.moves) = HoldCount + 7 * BOARD_WIDTH
               /\ \A i \in 1..Len(last'.moves) :
                     last'.moves[i].hold <=> i <= HoldCount
               /\ \A k \in 0..(7 * BOARD_WIDTH - 1) :
                     \E m \in {last'.moves[HoldCount + k + 1]} :
                         /\ m.hard_drop
                         /\ m.clockwise_rotations =
                               (IF k < 4 * BOARD_WIDTH THEN k \div BOARD_WIDTH ELSE 0)
                         /\ m.counterclockwise_rotations =
                               (IF k < 4 * BOARD_WIDTH THEN 0 ELSE (k \div BOARD_WIDTH) - 3)
                         /\ m.left_moves = 0 \/ m.right_moves = 0
                         /\ TargetColumn(m) = k % BOARD_WIDTH]_vars

\* C29 : for every cap of at least 1, find_possible_moves returns at most
\* cap candidates, holding allowed or not.
C29_CapRespected ==
    [][(last'.op = "find_possible_moves" /\ last'.cap >= 1) =>
          Len(last'.moves) <= last'.cap]_vars

(* ---------------------------------------------------------------------- *)
(* The evaluator applied to boards of filled columns                       *)
(* ---------------------------------------------------------------------- *)
\* the heights the columns next to the two walls take in these runs
WellLevels == {0, 3, 4}

\* the columns whose height varies : three at each wall
WellCols == {0, 1, 2, BOARD_WIDTH - 3, BOARD_WIDTH - 2, BOARD_WIDTH - 1}

\* the board whose column c is filled from the floor up to height h[c]
ColumnsBoard(h) ==
    [r \in Rows |-> [c \in Cols |->
        IF r >= BOARD_HEIGHT - h[c] THEN "I" ELSE "Empty"]]

\* the height vectors of the runs : the middle columns stand at height 3
WellHeights ==
    {[c \in Cols |-> IF c \in WellCols THEN f[c] ELSE 3] :
        f \in [WellCols -> WellLevels]}

\* op : the call made last, wells : the well sum it computed
Measured(op, wells) == [op |-> op, wells |-> wells]

InitWells ==
    /\ \E h \in WellHeights :
          game = [NewGame(TimeOrder) EXCEPT !.board = ColumnsBoard(h)]
    /\ last = Measured("new", 0)
    /\ locks = 0

\* the well sum as BoardEvaluator::evaluate computes it from the board
CalculateWells ==
    /\ last.op = "new"
    /\ last' = Measured("calculate_wells", Metrics(game.board).wells)
    /\ UNCHANGED <<game, locks>>

SpecWells == InitWells /\ [][CalculateWells]_vars

\* the columns next to column i
Neighbours(i) == {i - 1, i + 1} \cap Cols

\* the least height among the neighbours of column i
LowestNeighbour(h, i) ==
    CHOOSE m \in {h[n] : n \in Neighbours(i)} :
        \A n \in Neighbours(i) : m <= h[n]

\* the well sum of the heights h with a column counted when it is at
\* least by need lower than each of its neighbours
RefWells(h, need) ==
    SumCols([i \in Cols |->
               IF \A n \in Neighbours(i) : h[i] + need <= h[n]
               THEN (LowestNeighbour(h, i) - h[i]) * (LowestNeighbour(h, i) - h[i])
               ELSE 0],
            BOARD_WIDTH - 1)

\* C31 : the well sum adds the square of (least neighbour height - column
\* height) for every column that is at least 3 lower than each of its
\* neighbours, a column at a wall being compared with its one neighbour.
C31_WellSum ==
    [][last'.op = "calculate_wells" =>
          last'.wells = RefWells(get_column_heights(game.board), 3)]_vars

(* ---------------------------------------------------------------------- *)
(* Locks of a T piece at the top row or the left wall                      *)
(* ---------------------------------------------------------------------- *)
\* Game::detect_tspin called on g subtracts 1 from a row or column that is
\* 0 as usize, or adds 1 to one that is the greatest usize
SpinOverflows(g) ==
    /\ g.current_piece # NoPiece
    /\ g.current_piece.piece_type = "T"
    /\ \E u \in {AsUsize(g.current_piece.row), AsUsize(g.current_piece.col)} :
          u = 0 \/ u = USIZE_MOD - 1

\* C32 : a lock of a T piece whose pivot is at row 0 or above, or at
\* column 0 or left of it, completes without a subtraction below zero in
\* the inspection of the corners, and is scored with the spin class the
\* corner rule gives when the diagonal cells off the board count as
\* filled.
C32_SpinCorners ==
    [][(/\ Locking
        /\ last'.locked.piece_type = "T"
        /\ (last'.locked.row <= 0 \/ last'.locked.col <= 0)
        /\ game'.board # EmptyBoard)
       => /\ last'.ret
          /\ ~SpinOverflows([game EXCEPT !.current_piece = NoPiece])
          /\ game'.board = clear_lines(LockPlaced).board
          /\ LockPoints = RefLineScore(RefSpin(game.board, last'.locked), LockRemoved)
                              * game.score_system.level]_vars

(* ---------------------------------------------------------------------- *)
(* Time passing while the player moves and turns the piece                 *)
(* ---------------------------------------------------------------------- *)
\* a fresh game with a board installed, the clock about to run
InitStall ==
    /\ \E b \in TimeBoards : game = [NewGame(Reverse(TimeOrder)) EXCEPT !.board = b]
    /\ last = Call("load", TRUE, 0, NoPiece)
    /\ locks = 0

\* the parity of the number of updates, kept in the record of an update
Parity == IF "tick" \in DOMAIN last THEN last.tick ELSE 0

\* the record of a call of update : that of Call and the parity
Tick(ret, dt, locked, tick) ==
    [op |-> "update", ret |-> ret, dt |-> dt, locked |-> locked, tick |-> tick]

\* update called by the main loop
StallUpdate ==
    \E dt \in DtValues : \E perm \in Refills(game) :
        \E res \in {update(game, dt, perm)} :
            /\ game' = res.g
            /\ last' = Tick(res.ret, dt, res.locked, 1 - Parity)
            /\ locks' = IF res.locked # NoPiece THEN locks + 1 ELSE locks

\* update and the calls that move or turn the piece
NextStall ==
    \/ MoveLeft
    \/ MoveRight
    \/ MoveDown
    \/ RotateClockwise
    \/ RotateCounterclockwise
    \/ StallUpdate

\* the pieces an update can hand to lock_piece : none, the active piece
\* or the active piece one row lower
StallPieces ==
    {NoPiece, game.current_piece, with_down_move(game.current_piece)}

\* a call of update on a running game, as the call record shows it
UpdatePass ==
    /\ game.state = "Playing"
    /\ last' \in {Tick(TRUE, dt, locked, 1 - Parity) :
                     dt \in DtValues, locked \in StallPieces}

\* the main loop calls update again and again while the game is running,
\* whatever the player does between two calls ; every step of StallUpdate
\* on a running game is an UpdatePass
SpecStall == InitStall /\ [][NextStall]_vars /\ WF_last(UpdatePass)

\* the piece that is active is waiting to be locked
Falling(n) == game.state = "Playing" /\ locks = n

\* the piece that was active has been locked, or the game is over
Settled(n) == locks > n \/ game.state = "GameOver"

\* C33 : while update is called again and again with dt > 0, the active
\* piece of a game that is Playing is eventually locked or the game ends,
\* whatever calls of move_left, move_right, move_down and the rotations
\* are made between the updates.
C33_LockEventually == Falling(0) ~> Settled(0)

(* ---------------------------------------------------------------------- *)
(* The piece of a fresh game moved and turned over the whole board         *)
(* ---------------------------------------------------------------------- *)
\* a fresh game on the empty board
InitWalk ==
    /\ game = NewGame(Reverse(TimeOrder))
    /\ last = Call("new", TRUE, 0, NoPiece)
    /\ locks = 0

\* the runs keep the pivot of the piece within PivotMargin cells of the
\* board
OnStage(p) ==
    IF p = NoPiece THEN TRUE
    ELSE /\ p.col \in (-PivotMargin)..(BOARD_WIDTH - 1 + PivotMargin)
         /\ p.row >= -1 - PivotMargin

\* a call that locks no piece, made wherever the piece is
Walk(op, result) ==
    /\ \E res \in {result} :
          /\ OnStage(res.g.current_piece)
          /\ game' = res.g
          /\ last' = Call(op, res.ret, 0, NoPiece)
    /\ UNCHANGED locks

WalkLeft == Walk("move_left", move_left(game))

WalkRight == Walk("move_right", move_right(game))

\* a run collects at most MaxSoftDrops soft-drop points
WalkDown ==
    /\ game.score_system.score < MaxSoftDrops
    /\ Walk("move_down", move_down(game))

WalkClockwise == Walk("rotate_clockwise", rotate_clockwise(game))

WalkCounterclockwise ==
    Walk("rotate_counterclockwise", rotate_counterclockwise(game))

WalkHold ==
    \E perm \in Refills(game) : Walk("hold_piece", hold_piece(game, perm))

NextWalk ==
    \/ WalkLeft
    \/ WalkRight
    \/ WalkDown
    \/ WalkClockwise
    \/ WalkCounterclockwise
    \/ WalkHold

SpecWalk == InitWalk /\ [][NextWalk]_vars

\* C34 : in every state with an active piece, each of the four cells of
\* the piece has its column on the board and its row under the top of the
\* floor (rows above the top row are allowed), and no cell of the piece
\* lies on an occupied cell of the board.
C34_PieceInside ==
    game.current_piece # NoPiece =>
        \A i \in 1..4 :
            \E c \in {SignedCells(game.current_piece)[i]} :
                /\ c[2] \in Cols
                /\ c[1] < BOARD_HEIGHT
                /\ c[1] \in Rows => game.board[c[1]][c[2]] = "Empty"

(* ---------------------------------------------------------------------- *)
(* Locks : the cells of the board                                          *)
(* ---------------------------------------------------------------------- *)
\* C35 : every lock leaves on the board the cells it held before plus the
\* four cells of the piece minus BOARD_WIDTH cells for each row the lock
\* reports as cleared.
C35_CellsConserved ==
    [][Locking =>
          FilledCount(game'.board) =
              FilledCount(game.board) + 4 - BOARD_WIDTH * LockRemoved]_vars

\* C36 : in every state with an active piece the descent loop of
\* hard_drop ends, after at most BOARD_HEIGHT steps down.
C36_DropEnds ==
    game.current_piece # NoPiece =>
        \E d \in {DropLoop(game.board, game.current_piece, 0)} :
            /\ ~d.hangs
            /\ d.drop_distance <= BOARD_HEIGHT

(* ---------------------------------------------------------------------- *)
(* Locks : where the piece stands                                          *)
(* ---------------------------------------------------------------------- *)
\* C37 : a piece handed to lock_piece by update or hard_drop is grounded :
\* one row lower it is not placeable on the board of the call.
C37_LockedGrounded ==
    [][(Locking /\ last'.op \in {"update", "hard_drop"}) =>
          ~can_place(game.board, with_down_move(last'.locked))]_vars

(* ---------------------------------------------------------------------- *)
(* Games that are ended, paused and reset                                  *)
(* ---------------------------------------------------------------------- *)
\* the calls other than reset are made until MaxResetLocks pieces are
\* locked
MaxResetLocks == 1

\* reset called by the player, at any time
Reset ==
    /\ \E perm \in ShuffleOutcomes : game' = reset(game, perm)
    /\ last' = Call("reset", TRUE, 0, NoPiece)
    /\ UNCHANGED locks

\* time, drops, holds, pauses and resets
NextReset ==
    \/ Reset
    \/ /\ locks < MaxResetLocks
       /\ \/ LoadPauseBoard
          \/ HardDrop
          \/ HoldPiece
          \/ Update
          \/ TogglePause

SpecReset == Init /\ [][NextReset]_vars

\* C38 : between two calls there is no active piece exactly when the
\* state is GameOver.
C38_PieceUnlessOver ==
    game.current_piece = NoPiece <=> game.state = "GameOver"

\* a game that had locked a piece has been reset
C38_ResetAfterLock ==
    /\ last.op = "reset"
    /\ locks >= 1
    /\ game.state = "Playing"
    /\ game.current_piece # NoPiece

\* the calls by which the player acts on the piece
PlayerOps ==
    {"move_left", "move_right", "move_down", "rotate_clockwise",
     "rotate_counterclockwise", "hard_drop", "hold_piece"}

\* C39 : a call that moves, turns, drops or holds the piece while the
\* state is Paused leaves the active piece, the board, the score and the
\* held shape unchanged.
C39_PausedFrozen ==
    [][(game.state = "Paused" /\ last'.op \in PlayerOps)
          => /\ game'.current_piece = game.current_piece
             /\ game'.board = game.board
             /\ game'.score_system = game.score_system
             /\ game'.held_piece = game.held_piece]_vars

(* ---------------------------------------------------------------------- *)
(* The trial of the committed candidate beside its application             *)
(* ---------------------------------------------------------------------- *)
\* the copy of the piece source shuffled the queue
clone_box_Reversed(r) ==
    [bag |-> r.bag, preview_queue |-> Reverse(r.preview_queue)]

\* BagRandomizer::clone : the bag and the queue are copied ; the random
\* generator is not part of the piece source, so that a refill in the
\* copy is a shuffle of its own
clone_box(r) ==
    [bag |-> r.bag, preview_queue |-> r.preview_queue]

\* the copy of a game : every field copied, the piece source by clone_box
CloneGame(g) == [g EXCEPT !.randomizer = clone_box(g.randomizer)]

\* the bot is called until MaxTrialLocks pieces are locked
MaxTrialLocks == 2

\* the record of a make_move : trial is what apply_move did to the copy
\* on which the committed candidate was tried, applied what it returned
\* on the game itself, before is the game the bot was handed
Trial(ret, best, tick, trial, applied, locked, before) == [op |-> "make_move", ret |-> ret, best |-> best, tick |-> tick, trial |-> trial, applied |-> applied, locked |-> locked, before |-> before]

\* make_move after the enumeration, the refills in the copies with the
\* shuffle outcome permT and the refill in the game with the outcome
\* permR ; best is 0 when there is no candidate
TrialAndApply(g, possible_moves, permT, permR) ==
    IF possible_moves = << >>
    THEN [trial |-> [g |-> g, ret |-> FALSE, locked |-> NoPiece],
          real |-> [g |-> g, ret |-> FALSE, locked |-> NoPiece],
          best |-> 0]
    ELSE
    CHOOSE out \in
        {[trial |-> apply_move(CloneGame(g), possible_moves[best], permT),
          real |-> apply_move(g, possible_moves[best], permR),
          best |-> best] :
            best \in {BestLoop(scores, 1, 1, 0, TRUE) :
                         scores \in {[i \in 1..Len(possible_moves) |->
                                        evaluate(apply_move(CloneGame(g), possible_moves[i], permT).g)]}}} : TRUE

\* make_move, also called on a game that is over : without candidates
\* no copy is made and the call returns false
TrialMove ==
    /\ locks < MaxTrialLocks \/ game.state = "GameOver"
    /\ \E permT \in ShuffleOutcomes, permR \in ShuffleOutcomes :
          \E out \in {TrialAndApply(game, find_possible_moves(game, DEFAULT_MAX_MOVES), permT, permR)} :
              /\ game' = out.real.g
              /\ last' = Trial(out.best > 0, out.best, 1 - last.tick, out.trial, out.real.ret, out.real.locked, game)
              /\ locks' = IF out.real.locked # NoPiece THEN locks + 1 ELSE locks

NextTrial == LoadBotBoard \/ BotHardDrop \/ TrialMove

SpecTrial == InitBot /\ [][NextTrial]_vars

\* C40 : after a make_move the game is what the trial of the committed
\* candidate left on its copy, whatever the shuffles of the refills in
\* the copy and in the game were : each sub-action succeeded or failed
\* alike, the same piece was locked, and the board, the score, the active
\* piece, the held shape and the state are the same.
C40_TrialFaithful ==
    ("trial" \in DOMAIN last) =>
        /\ last.trial.ret = last.applied
        /\ last.trial.locked = last.locked
        /\ last.trial.g.board = game.board
        /\ last.trial.g.score_system = game.score_system
        /\ last.trial.g.current_piece = game.current_piece
        /\ last.trial.g.held_piece = game.held_piece
        /\ last.trial.g.can_hold = game.can_hold
        /\ last.trial.g.state = game.state

\* the bot locked a piece, and the copy and the game refilled their bags
\* with different shuffles
C40_RefilledApart ==
    /\ "trial" \in DOMAIN last
    /\ last.locked # NoPiece
    /\ last.before.randomizer.bag = << >>
    /\ last.trial.g.randomizer # game.randomizer

==========================================================================
